---- MODULE Spec2Model ----
(***************************************************************************)
(* The vote-tallying engine of sturavoting: EvaluateMedian and             *)
(* EvaluateSchulze with computeD, computeP, computePercentage and rankP;   *)
(* and ParseVotingCollection, the parser of voting collections.            *)
(*                                                                         *)
(* Go slices are 0-based.  A ranking and a vote list are TLA+ sequences    *)
(* (Go index i is position i+1, see At); a matrix, which the code indexes  *)
(* everywhere, is a function on 0..n-1.                                    *)
(*                                                                         *)
(* percentRequired is a float64.  The model draws it from the dyadic       *)
(* fractions pNum / PercentDen: these are float64 values, and their        *)
(* product with the small integer weightSum is computed by float64         *)
(* without rounding, so int(float64(weightSum) * percentRequired) is the   *)
(* exact quotient truncated toward zero (TruncToInt).                      *)
(***************************************************************************)
EXTENDS Integers, Sequences, FiniteSets, TLC

\* ------------------------------------------------------------- bounds
\* Options of a Schulze voting: n in 0..MaxN.
MaxN == 3
\* Ballots of a call of the pure functions (SpecFn) and of EvaluateMedian.
MaxVotes == 3
\* Ballots of a full, interleaved EvaluateSchulze call (Spec).
MaxCallVotes == 2
\* Weights 0..MaxWeight.
MaxWeight == 1
\* Median values 0..MaxValue.
MaxValue == 2
\* percentRequired is pNum / 2^PercentBits, 0 < pNum < 2^PercentBits.
PercentBits == 2
\* Shards of a sharded construction of D.
MaxShards == 3
\* Ballots of a call whose termination is checked (SpecLive).
MaxLiveVotes == 1
\* Lines of the input of ParseVotingCollection.
MaxLines == 8

PercentDen == 2 ^ PercentBits

\* ------------------------------------------------------------ helpers
At(s, i) == s[i + 1]

IntMax(a, b) == IF a > b THEN a ELSE b

IntMin(a, b) == IF a < b THEN a ELSE b

\* int(x) of a float64 x = num / den: the fraction is dropped.
TruncToInt(num, den) == IF num >= 0 THEN num \div den ELSE -((-num) \div den)

\* The product rounded to the nearest integer, halves upward.
RoundedVotesRequired(weightSum, pn) == TruncToInt(2 * weightSum * pn + PercentDen, 2 * PercentDen)

\* The product with 1 - percentRequired.
VotesRequiredOfRest(weightSum, pn) == TruncToInt(weightSum * (PercentDen - pn), PercentDen)

\* int(float64(weightSum) * percentRequired)
VotesRequiredOf(weightSum, pn) == TruncToInt(weightSum * pn, PercentDen)

RECURSIVE WeightSum(_)
WeightSum(vs) == IF vs = <<>> THEN 0 ELSE vs[1].Weight + WeightSum(Tail(vs))

NewIntMatrix(N) == [i \in 0 .. N - 1 |-> [j \in 0 .. N - 1 |-> 0]]

\* ------------------------------------------------------------- median
\* sort.Slice with less(i, j) = votes[i].Value > votes[j].Value: the slice
\* is permuted in place into descending Value order.  sort.Slice is not
\* stable, so every descending arrangement is a possible outcome.
IsPermutationOf(s, t) ==
    /\ Len(s) = Len(t)
    /\ \E f \in [1 .. Len(s) -> 1 .. Len(s)] :
          /\ \A a, b \in 1 .. Len(s) : a # b => f[a] # f[b]
          /\ \A a \in 1 .. Len(s) : s[a] = t[f[a]]

\* A comparison that accepts every order.
AnyOrderByValue(s) == TRUE

DescendingByValue(s) == \A a \in 1 .. Len(s) - 1 : ~(s[a + 1].Value > s[a].Value)

\* A sort that has no outcome for the empty slice.
SortNonEmptyMedianVotes(vs) ==
    { s \in [1 .. Len(vs) -> {vs[a] : a \in 1 .. Len(vs)}] :
        Len(vs) > 0 /\ IsPermutationOf(s, vs) /\ DescendingByValue(s) }

SortMedianVotes(vs) ==
    { s \in [1 .. Len(vs) -> {vs[a] : a \in 1 .. Len(vs)}] :
        IsPermutationOf(s, vs) /\ DescendingByValue(s) }

\* The scan with weightSoFar >= votesRequired for its test.
RECURSIVE MedianScanAtLeast(_, _, _, _)
MedianScanAtLeast(vs, a, weightSoFar, votesRequired) ==
    IF a > Len(vs) THEN 0
    ELSE LET w == weightSoFar + vs[a].Weight
         IN  IF w >= votesRequired THEN vs[a].Value
             ELSE MedianScanAtLeast(vs, a + 1, w, votesRequired)

\* The loop of lines 413-419 from position a on: the Value it leaves in res,
\* 0 when it never assigns.
RECURSIVE MedianScan(_, _, _, _)
MedianScan(vs, a, weightSoFar, votesRequired) ==
    IF a > Len(vs) THEN 0
    ELSE LET w == weightSoFar + vs[a].Weight
         IN  IF w > votesRequired THEN vs[a].Value
             ELSE MedianScan(vs, a + 1, w, votesRequired)

\* EvaluateMedian on the already sorted slice.
MedianResultOf(sorted, pn) ==
    LET votesRequired == VotesRequiredOf(WeightSum(sorted), pn)
    IN  [Value |-> MedianScan(sorted, 1, 0, votesRequired),
         VotesRequired |-> votesRequired]

\* ------------------------------------------------------------ computeD
\* The switch with the two cells exchanged.
PairStepSwapped(M, w, ranking, i, j) ==
    IF At(ranking, i) < At(ranking, j) THEN [M EXCEPT ![j][i] = @ + w]
    ELSE IF At(ranking, j) < At(ranking, i) THEN [M EXCEPT ![i][j] = @ + w]
    ELSE M

\* The switch with a third case that counts a tie for both options.
PairStepTieBoth(M, w, ranking, i, j) ==
    IF At(ranking, i) < At(ranking, j) THEN [M EXCEPT ![i][j] = @ + w]
    ELSE IF At(ranking, j) < At(ranking, i) THEN [M EXCEPT ![j][i] = @ + w]
    ELSE [M EXCEPT ![i][j] = @ + w, ![j][i] = @ + w]

\* The switch with a tie counted for the first option of the pair.
PairStepTieFirst(M, w, ranking, i, j) ==
    IF At(ranking, i) <= At(ranking, j) THEN [M EXCEPT ![i][j] = @ + w]
    ELSE [M EXCEPT ![j][i] = @ + w]

\* One pass of the switch of lines 542-547 for the pair (i, j), i < j.
PairStep(M, w, ranking, i, j) ==
    IF At(ranking, i) < At(ranking, j) THEN [M EXCEPT ![i][j] = @ + w]
    ELSE IF At(ranking, j) < At(ranking, i) THEN [M EXCEPT ![j][i] = @ + w]
    ELSE M

\* The loops below go on with the matrix of the step just made: next is
\* compared with M so that it is a value before the loop goes on.
\* for j := i + 1; j < N; j++
RECURSIVE DLoopJ(_, _, _, _, _, _)
DLoopJ(M, w, ranking, N, i, j) ==
    IF j >= N THEN M
    ELSE LET next == PairStep(M, w, ranking, i, j)
         IN  IF next = M THEN DLoopJ(M, w, ranking, N, i, j + 1)
             ELSE DLoopJ(next, w, ranking, N, i, j + 1)

\* for i := 0; i < N; i++
RECURSIVE DLoopI(_, _, _, _, _)
DLoopI(M, w, ranking, N, i) ==
    IF i >= N THEN M
    ELSE LET next == DLoopJ(M, w, ranking, N, i, i + 1)
         IN  IF next = M THEN DLoopI(M, w, ranking, N, i + 1)
             ELSE DLoopI(next, w, ranking, N, i + 1)

\* A loop that keeps only what the last ballot adds.
DLoopLastVote(M, vs, N) ==
    IF vs = <<>> THEN M
    ELSE DLoopI(M, vs[Len(vs)].Weight, vs[Len(vs)].Ranking, N, 0)

\* for _, vote := range votes
RECURSIVE DLoopVotes(_, _, _)
DLoopVotes(M, vs, N) ==
    IF vs = <<>> THEN M
    ELSE LET next == DLoopI(M, vs[1].Weight, vs[1].Ranking, N, 0)
         IN  IF next = M THEN DLoopVotes(M, Tail(vs), N)
             ELSE DLoopVotes(next, Tail(vs), N)

computeD(vs, N) == DLoopVotes(NewIntMatrix(N), vs, N)

\* --------------------------------------------------- computePercentage
RECURSIVE Gcd(_, _)
Gcd(a, b) == IF b = 0 THEN a ELSE Gcd(b, a % b)

\* The float64 quotient a / b of two small integers, b > 0, as the fraction
\* in lowest terms: two such quotients are the same float64 exactly when
\* they are the same fraction.  The zero value of a float64 is 0 = 0/1.
Quotient(a, b) == LET g == Gcd(a, b) IN <<a \div g, b \div g>>

FloatZero == <<0, 1>>

\* The quotients of the last row's cells in place of the last column's.
computePercentageOfRow(D, N, weightSum) ==
    IF N = 0 THEN <<>>
    ELSE IF weightSum = 0 THEN [i \in 1 .. N - 1 |-> FloatZero]
    ELSE [i \in 1 .. N - 1 |-> Quotient(D[N - 1][i - 1], weightSum)]

computePercentage(D, N, weightSum) ==
    IF N = 0 THEN <<>>
    ELSE IF weightSum = 0 THEN [i \in 1 .. N - 1 |-> FloatZero]
    ELSE [i \in 1 .. N - 1 |-> Quotient(D[i - 1][N - 1], weightSum)]

\* ------------------------------------------------------------ computeP
\* The seed goroutine of row i, lines 579-589: for j := 0; j < N; j++.
RECURSIVE SeedLoopJ(_, _, _, _, _)
SeedLoopJ(M, D, N, i, j) ==
    IF j >= N THEN M
    ELSE IF i = j THEN SeedLoopJ(M, D, N, i, j + 1)
    ELSE LET next == IF D[i][j] > D[j][i] THEN [M EXCEPT ![i][j] = D[i][j]] ELSE M
         IN  IF next = M THEN SeedLoopJ(M, D, N, i, j + 1)
             ELSE SeedLoopJ(next, D, N, i, j + 1)

\* The seed row without the test D[i][j] > D[j][i].
SeedRowAlways(M, D, N, i) == [M EXCEPT ![i] = [j \in 0 .. N - 1 |-> IF i = j THEN 0 ELSE D[i][j]]]

SeedRow(M, D, N, i) == SeedLoopJ(M, D, N, i, 0)

\* An update that reads res[k][j], a cell the same iteration writes, in
\* place of res[j][k].
WidenStepAcross(M, i, j, k) ==
    [M EXCEPT ![j][k] = IntMax(M[k][j], IntMin(M[j][i], M[i][k]))]

\* Line 602: res[j][k] = IntMax(res[j][k], IntMin(res[j][i], res[i][k])).
WidenStep(M, i, j, k) ==
    [M EXCEPT ![j][k] = IntMax(M[j][k], IntMin(M[j][i], M[i][k]))]

\* The loop without the test j == k of line 599.
RECURSIVE WidenLoopKDiagonal(_, _, _, _, _)
WidenLoopKDiagonal(M, N, i, j, k) ==
    IF k >= N THEN M
    ELSE IF i = k THEN WidenLoopKDiagonal(M, N, i, j, k + 1)
    ELSE LET next == WidenStep(M, i, j, k)
         IN  IF next = M THEN WidenLoopKDiagonal(M, N, i, j, k + 1)
             ELSE WidenLoopKDiagonal(next, N, i, j, k + 1)

\* Lines 598-603: for k := 0; k < N; k++.
RECURSIVE WidenLoopK(_, _, _, _, _)
WidenLoopK(M, N, i, j, k) ==
    IF k >= N THEN M
    ELSE IF i = k \/ j = k THEN WidenLoopK(M, N, i, j, k + 1)
    ELSE LET next == WidenStep(M, i, j, k)
         IN  IF next = M THEN WidenLoopK(M, N, i, j, k + 1)
             ELSE WidenLoopK(next, N, i, j, k + 1)

\* Lines 594-604: for j := 0; j < N; j++.
RECURSIVE WidenLoopJ(_, _, _, _)
WidenLoopJ(M, N, i, j) ==
    IF j >= N THEN M
    ELSE IF i = j THEN WidenLoopJ(M, N, i, j + 1)
    ELSE LET next == WidenLoopK(M, N, i, j, 0)
         IN  IF next = M THEN WidenLoopJ(M, N, i, j + 1)
             ELSE WidenLoopJ(next, N, i, j + 1)

\* An iteration that widens nothing.
WidenSkipped(M, N, i) == M

\* One iteration of the outer loop of line 593, intermediate vertex i.
WidenIteration(M, N, i) == WidenLoopJ(M, N, i, 0)

RECURSIVE WidenLoopI(_, _, _)
WidenLoopI(M, N, i) ==
    IF i >= N THEN M
    ELSE LET next == WidenIteration(M, N, i)
         IN  IF next = M THEN WidenLoopI(M, N, i + 1)
             ELSE WidenLoopI(next, N, i + 1)

RECURSIVE SeedAll(_, _, _, _)
SeedAll(M, D, N, i) ==
    IF i >= N THEN M
    ELSE LET next == SeedRow(M, D, N, i)
         IN  IF next = M THEN SeedAll(M, D, N, i + 1)
             ELSE SeedAll(next, D, N, i + 1)

\* computeP as a function of D: the seed rows (each goroutine writes its own
\* row), then the widening loops.
computeP(D, N) == WidenLoopI(SeedAll(NewIntMatrix(N), D, N, 0), N, 0)

\* --------------------------------------------------------------- rankP
\* Lines 621-629 of the goroutine of option i.
RECURSIVE WinsLoopJ(_, _, _, _, _)
WinsLoopJ(P, N, i, j, numWins) ==
    IF j >= N THEN numWins
    ELSE IF i = j THEN WinsLoopJ(P, N, i, j + 1, numWins)
    ELSE IF P[i][j] > P[j][i] THEN WinsLoopJ(P, N, i, j + 1, numWins + 1)
    ELSE WinsLoopJ(P, N, i, j + 1, numWins)

\* The count with P[i][j] >= P[j][i] for its test.
NumWinsOrTies(P, N, i) == Cardinality({j \in 0 .. N - 1 : j # i /\ P[i][j] >= P[j][i]})

NumWins(P, N, i) == WinsLoopJ(P, N, i, 0, 0)

\* candidateWins is a partial function from win counts to lists of options.
\* append(candidateWins[numWins], i): a missing key reads as the nil slice.
AppendedSlice(cw, numWins, i) ==
    IF numWins \in DOMAIN cw THEN Append(cw[numWins], i) ELSE <<i>>

\* candidateWins[numWins] = slice
StoreWin(cw, numWins, slice) ==
    [k \in DOMAIN cw \cup {numWins} |-> IF k = numWins THEN slice ELSE cw[k]]

\* Line 632: candidateWins[numWins] = append(candidateWins[numWins], i).
AppendWin(cw, numWins, i) ==
    [k \in DOMAIN cw \cup {numWins} |->
        IF k = numWins
        THEN (IF numWins \in DOMAIN cw THEN Append(cw[numWins], i) ELSE <<i>>)
        ELSE cw[k]]

\* The keys, least first.
RECURSIVE SortedAscending(_)
SortedAscending(keys) ==
    IF keys = {} THEN <<>>
    ELSE LET m == CHOOSE x \in keys : \A y \in keys : x <= y
         IN  <<m>> \o SortedAscending(keys \ {m})

\* sort.Sort(sort.Reverse(sort.IntSlice(keys))): the keys, greatest first.
RECURSIVE SortedDescending(_)
SortedDescending(keys) ==
    IF keys = {} THEN <<>>
    ELSE LET m == CHOOSE x \in keys : \A y \in keys : x >= y
         IN  <<m>> \o SortedDescending(keys \ {m})

\* Lines 638-647.
CollectRanked(cw) ==
    LET keys == SortedDescending(DOMAIN cw)
    IN  [a \in 1 .. Len(keys) |-> cw[keys[a]]]

\* rankP as a function of P and of the order in which the N goroutines
\* enter the critical section of lines 631-633.
RECURSIVE AppendInOrder(_, _, _, _)
AppendInOrder(cw, P, N, order) ==
    IF order = <<>> THEN cw
    ELSE AppendInOrder(AppendWin(cw, NumWins(P, N, order[1]), order[1]), P, N, Tail(order))

rankP(P, N, order) == CollectRanked(AppendInOrder(<<>>, P, N, order))

\* -------------------------------------------------------------- inputs
Range(s) == {s[a] : a \in DOMAIN s}

\* computeD only compares the entries of a ranking, so a ranking behaves as
\* its renumbering without gaps: ranks 0..m, each of them used.
Canonical(r) == \A v \in Range(r) : v = 0 \/ (v - 1) \in Range(r)

Rankings(k) == {r \in [1 .. k -> 0 .. k - 1] : Canonical(r)}

SchulzeVotes(lens) == [Weight : 0 .. MaxWeight, Ranking : UNION {Rankings(k) : k \in lens}]

MedianVotes == [Weight : 0 .. MaxWeight, Value : 0 .. MaxValue]

Percents == 1 .. PercentDen - 1

\* 0.5
Half == PercentDen \div 2

MedianVote(weight, value) == [Weight |-> weight, Value |-> value]

SchulzeVote(weight, ranking) == [Weight |-> weight, Ranking |-> ranking]

\* The ballots of the repository's tests.
TestMedianOne ==
    << MedianVote(4, 200), MedianVote(3, 1000), MedianVote(2, 700), MedianVote(2, 500) >>

TestMedianTwo == << MedianVote(1, 0), MedianVote(2, 150), MedianVote(3, 200) >>

TestSchulzeOne ==
    << SchulzeVote(1, <<0, 0, 0, 0, 0, 1>>),
       SchulzeVote(2, <<0, 0, 1, 3, 0, 2>>),
       SchulzeVote(3, <<1, 1, 0, 2, 2, 3>>) >>

TestSchulzeTwo ==
    << SchulzeVote(5, <<0, 2, 1, 4, 3>>),
       SchulzeVote(5, <<0, 4, 3, 1, 2>>),
       SchulzeVote(8, <<3, 0, 4, 2, 1>>),
       SchulzeVote(3, <<1, 2, 0, 4, 3>>),
       SchulzeVote(7, <<1, 3, 0, 4, 2>>),
       SchulzeVote(2, <<2, 1, 0, 3, 4>>),
       SchulzeVote(7, <<4, 3, 1, 0, 2>>),
       SchulzeVote(8, <<2, 1, 4, 3, 0>>) >>

TestSchulzeThree ==
    << SchulzeVote(3, <<0, 1, 2, 3>>),
       SchulzeVote(2, <<1, 2, 3, 0>>),
       SchulzeVote(2, <<3, 1, 2, 0>>),
       SchulzeVote(2, <<3, 1, 0, 2>>) >>

TestMedianInputs == {TestMedianOne, TestMedianTwo}

\* A call of EvaluateSchulze by a test: n is the length of its rankings.
TestSchulzeCalls == {TestSchulzeTwo, TestSchulzeThree}

TestSchulzeInputs == {TestSchulzeOne, TestSchulzeTwo, TestSchulzeThree}

\* The orders in which N goroutines can enter a critical section once each.
Orders(N) == {o \in [1 .. N -> 0 .. N - 1] : \A a, b \in 1 .. N : a # b => o[a] # o[b]}

\* --------------------------------------------------------------- state
VARIABLES
    call,           \* "median", "schulze", "parse": the function called; "fn": callees
    pc,             \* where the calling goroutine is
    given,          \* the median ballots as the caller supplied them
    mvotes,         \* the caller's []*MedianVote
    mres,           \* *MedianResult
    votes,          \* the caller's []*SchulzeVote
    n,
    pNum,           \* percentRequired = pNum / PercentDen
    weightSum,
    votesRequred,
    d,
    p,              \* EvaluateSchulze's p, assigned by its first goroutine
    percents,
    wg,             \* EvaluateSchulze's WaitGroup
    pTask,          \* the goroutine of lines 518-521
    cTask,          \* the goroutine of lines 522-525
    res,            \* computeP's res
    wgP,            \* computeP's WaitGroup
    seedPc,         \* the goroutines of lines 579-589
    wi,             \* the i of line 593
    candidateWins,
    mutex,          \* TRUE: locked
    wgRank,         \* rankP's WaitGroup
    rankPc,         \* the goroutines of lines 619-634
    appended,       \* what append returned to each of them at line 632
    ranked,
    ret,            \* *SchulzeRes, *VotingCollection
    err,
    input,          \* the lines of ParseVotingCollection's reader scanned so far
    lineNumber,
    state,
    collection,     \* ParseVotingCollection's res
    lastVotingName

vars ==
    << call, pc, given, mvotes, mres, votes, n, pNum, weightSum, votesRequred, d, p,
       percents, wg, pTask, cTask, res, wgP, seedPc, wi, candidateWins, mutex, wgRank,
       rankPc, appended, ranked, ret, err, input, lineNumber, state, collection,
       lastVotingName >>

parseVars == << input, lineNumber, state, collection, lastVotingName >>

medianVars == << given, mvotes, mres >>

inputVars == << call, votes, n, pNum >>

computePVars == << res, wgP, seedPc, wi >>

rankPVars == << candidateWins, mutex, wgRank, rankPc, appended, ranked >>

\* A pointer: nil, or the address of a value.
Nil == <<>>

Ptr(x) == <<x>>

Deref(ptr) == ptr[1]

\* ------------------------------------------------ ParseVotingCollection
\* A string is a sequence of runs of characters.  A run is one character,
\* but for "01.01.2020", a date in the layout of line 390, and for the two
\* runs of x that stand for a text of 151 and of 65536 characters.
LongName == "x^151"

LongLine == "x^65536"

ADate == "01.01.2020"

RunLength(c) ==
    IF c = LongName THEN 151
    ELSE IF c = LongLine THEN 64 * 1024
    ELSE IF c = ADate THEN 10
    ELSE 1

\* utf8.RuneCountInString(s); the runs are of one-byte characters.
RECURSIVE RuneCountInString(_)
RuneCountInString(s) == IF s = <<>> THEN 0 ELSE RunLength(s[1]) + RuneCountInString(Tail(s))

\* bufio.MaxScanTokenSize: a line longer than the Scanner's buffer makes
\* scanner.Scan() return false, as the end of the input does.
MaxScanTokenSize == 64 * 1024

ScanFails(line) == RuneCountInString(line) >= MaxScanTokenSize

RECURSIVE TrimLeft(_)
TrimLeft(s) == IF s # <<>> /\ s[1] = " " THEN TrimLeft(Tail(s)) ELSE s

RECURSIVE TrimRight(_)
TrimRight(s) == IF s # <<>> /\ s[Len(s)] = " " THEN TrimRight(SubSeq(s, 1, Len(s) - 1)) ELSE s

\* strings.TrimSpace
TrimSpace(s) == TrimRight(TrimLeft(s))

\* strings.HasPrefix
HasPrefix(s, prefix) == Len(s) >= Len(prefix) /\ SubSeq(s, 1, Len(prefix)) = prefix

\* s[k:] and s[:k]
SliceFrom(s, k) == SubSeq(s, k + 1, Len(s))

SliceTo(s, k) == SubSeq(s, 1, k)

\* strings.LastIndex(s, c) for a one-character c
LastIndex(s, c) ==
    LET hits == {a \in 1 .. Len(s) : s[a] = c}
    IN  IF hits = {} THEN -1 ELSE (CHOOSE a \in hits : \A b \in hits : b <= a) - 1

\* collectionParseState, lines 178-204
cStartState == 0

cTopLevelState == 1

cGroupState == 2

cVotingState == 3

cGroupOrVoting == 4

cSchulzeOptionsState == 5

\* votingType, lines 208-211
medianVoting == 0

schulzeVoting == 1

\* schulzeOptionStateRes, lines 215-219
optionStateSchulzeOption == 0

optionStateVoting == 1

optionStateGroup == 2

\* An error value: a *SyntaxError, or the error of errors.New and of
\* time.Parse, which has no line number (0 here).
NewSyntaxError(lnum, message) ==
    Ptr([type |-> "SyntaxError", lineNumber |-> lnum, message |-> message])

NewError(message) == Ptr([type |-> "error", lineNumber |-> 0, message |-> message])

IsDigit(c) == c \in {"0", "1", "2", "3", "4", "5", "6", "7", "8", "9"}

DigitValue(c) == CHOOSE v \in 0 .. 9 : <<"0", "1", "2", "3", "4", "5", "6", "7", "8", "9">>[v + 1] = c

\* strconv.Atoi of a string of digits
RECURSIVE Atoi(_)
Atoi(s) == IF s = <<>> THEN 0 ELSE 10 * Atoi(SubSeq(s, 1, Len(s) - 1)) + DigitValue(s[Len(s)])

AllDigits(s) == \A a \in 1 .. Len(s) : IsDigit(s[a])

\* parseConcurrency, lines 223-236: the regular expression of line 221 and
\* the value in hundredths.
parseConcurrency(str) ==
    LET seps == {a \in 1 .. Len(str) : str[a] \in {".", ","}}
        q == CHOOSE a \in seps : TRUE
        firstPart == IF seps = {} THEN str ELSE SliceTo(str, q - 1)
        fraction == IF seps = {} THEN <<>> ELSE SliceFrom(str, q)
        match == /\ Cardinality(seps) <= 1
                 /\ firstPart # <<>> /\ AllDigits(firstPart)
                 /\ seps # {} => (Len(fraction) \in {1, 2} /\ AllDigits(fraction))
        secondPart == IF Len(fraction) = 0 THEN <<"0", "0">>
                      ELSE IF Len(fraction) = 1 THEN fraction \o <<"0">>
                      ELSE fraction
    IN  IF ~match
        THEN [value |-> -1, err |-> NewError("Not a valid number, allowed format is XXXX.XX")]
        ELSE [value |-> Atoi(firstPart \o secondPart), err |-> Nil]

\* validateVotingsString, lines 368-373
validateVotingsString(s) ==
    IF s = <<>> \/ RuneCountInString(s) > 150
    THEN NewError("Name must be not empty and at most 150 characters long")
    ELSE Nil

\* time.Parse("02.01.2006", dateStr): nil for a date in that layout.
TimeParse(dateStr) == IF dateStr = <<ADate>> THEN Nil ELSE NewError("parsing time")

\* handlecStartState, lines 375-395
handlecStartState(line, lnum) ==
    IF ~HasPrefix(line, <<"#", " ">>)
    THEN [name |-> <<>>, date |-> <<>>,
          err |-> NewSyntaxError(lnum, "Expected a title starting with #")]
    ELSE LET rest == TrimSpace(SliceFrom(line, 1))
             lastColon == LastIndex(rest, ":")
             name == TrimSpace(SliceTo(rest, lastColon))
             dateStr == TrimSpace(SliceFrom(rest, lastColon + 1))
         IN  IF lastColon < 0
             THEN [name |-> <<>>, date |-> <<>>,
                   err |-> NewSyntaxError(lnum, "Line must contain \": date\"")]
             ELSE IF validateVotingsString(name) # Nil
             THEN [name |-> <<>>, date |-> <<>>, err |-> validateVotingsString(name)]
             ELSE IF TimeParse(dateStr) # Nil
             THEN [name |-> <<>>, date |-> <<>>, err |-> TimeParse(dateStr)]
             ELSE [name |-> name, date |-> dateStr, err |-> Nil]

\* handlectopLevelState, lines 397-406
handlectopLevelState(line, lnum) ==
    IF ~HasPrefix(line, <<"#", "#", " ">>)
    THEN [name |-> <<>>, err |-> NewSyntaxError(lnum, "Expected a group starting with ## ")]
    ELSE LET rest == TrimSpace(SliceFrom(line, 2))
         IN  IF validateVotingsString(rest) # Nil
             THEN [name |-> <<>>, err |-> validateVotingsString(rest)]
             ELSE [name |-> rest, err |-> Nil]

\* handlecGroupState, lines 408-417
handlecGroupState(line, lnum) ==
    IF ~HasPrefix(line, <<"#", "#", "#", " ">>)
    THEN [name |-> <<>>, err |-> NewSyntaxError(lnum, "Expected a voting starting with ### ")]
    ELSE LET rest == TrimSpace(SliceFrom(line, 3))
         IN  IF validateVotingsString(rest) # Nil
             THEN [name |-> <<>>, err |-> validateVotingsString(rest)]
             ELSE [name |-> rest, err |-> Nil]

\* handlecVotingState, lines 419-436
handlecVotingState(line, lnum) ==
    IF HasPrefix(line, <<"*", " ">>)
    THEN LET rest == TrimSpace(SliceFrom(line, 1))
         IN  IF validateVotingsString(rest) # Nil
             THEN [str |-> <<>>, vType |-> -1, err |-> validateVotingsString(rest)]
             ELSE [str |-> rest, vType |-> schulzeVoting, err |-> Nil]
    ELSE IF HasPrefix(line, <<"-", " ">>)
    THEN LET rest == TrimSpace(SliceFrom(line, 1))
         IN  IF validateVotingsString(rest) # Nil
             THEN [str |-> <<>>, vType |-> -1, err |-> validateVotingsString(rest)]
             ELSE [str |-> rest, vType |-> medianVoting, err |-> Nil]
    ELSE [str |-> <<>>, vType |-> -1,
          err |-> NewSyntaxError(lnum,
              "Expected either * OPTION (for Schulze voting) or - VALUE (for median voting)")]

\* handlecGroupOrVoting, lines 439-449
handlecGroupOrVoting(line, lnum) ==
    IF handlecGroupState(line, lnum).err = Nil
    THEN [name |-> handlecGroupState(line, lnum).name, isVoting |-> TRUE, err |-> Nil]
    ELSE IF handlectopLevelState(line, lnum).err = Nil
    THEN [name |-> handlectopLevelState(line, lnum).name, isVoting |-> FALSE, err |-> Nil]
    ELSE [name |-> <<>>, isVoting |-> FALSE,
          err |-> NewSyntaxError(lnum, "Expected a voting or a voting group")]

\* handlecSchulzeOptionsState, lines 451-470
handlecSchulzeOptionsState(line, lnum) ==
    IF handlecVotingState(line, lnum).err = Nil
    THEN IF handlecVotingState(line, lnum).vType # schulzeVoting
         THEN [name |-> <<>>, resType |-> -1,
               err |-> NewSyntaxError(lnum, "Expected a schulze option, found median option")]
         ELSE [name |-> handlecVotingState(line, lnum).str,
               resType |-> optionStateSchulzeOption, err |-> Nil]
    ELSE IF handlecGroupOrVoting(line, lnum).err = Nil
    THEN [name |-> handlecGroupOrVoting(line, lnum).name,
          resType |-> IF handlecGroupOrVoting(line, lnum).isVoting
                      THEN optionStateVoting ELSE optionStateGroup,
          err |-> Nil]
    ELSE [name |-> <<>>, resType |-> -1,
          err |-> NewSyntaxError(lnum,
              "Expected either a schulze option, a voting or a voting group")]


\* Line 243: res := &VotingCollection{Name: "", Groups: make([]*VotingGroup, 0)}
NewVotingCollection == [Name |-> <<>>, Date |-> <<>>, Groups |-> <<>>]

\* &VotingGroup{Name: name, ...}, lines 267-269, 337-339, 355-357
NewVotingGroup(name) == [Name |-> name, MedianVotings |-> <<>>, SchulzeVotings |-> <<>>]

\* res.Groups = append(res.Groups, group)
WithGroup(coll, name) == [coll EXCEPT !.Groups = Append(@, NewVotingGroup(name))]

\* Lines 294-295 and 303-304: the voting is appended to lastGroup, the
\* group at res.Groups[len(res.Groups)-1].
WithSchulzeVoting(coll, name, option) ==
    [coll EXCEPT !.Groups[Len(coll.Groups)].SchulzeVotings =
        Append(@, [Name |-> name, Options |-> <<option>>, PercentRequired |-> -1])]

WithMedianVoting(coll, name, value) ==
    [coll EXCEPT !.Groups[Len(coll.Groups)].MedianVotings =
        Append(@, [Name |-> name, MaxValue |-> value, PercentRequired |-> -1])]

\* Lines 330-331: the option is appended to the last Schulze voting of the
\* last group.
WithOption(coll, option) ==
    LET g == Len(coll.Groups)
        v == Len(coll.Groups[g].SchulzeVotings)
    IN  [coll EXCEPT !.Groups[g].SchulzeVotings[v].Options = Append(@, option)]

\* What an iteration of the loop of line 245 leaves for a non-blank line.
Parsed(st, coll, last) == [state |-> st, collection |-> coll, lastVotingName |-> last, err |-> Nil]

Failed(st, coll, last, e) == [state |-> st, collection |-> coll, lastVotingName |-> last, err |-> e]

\* The switch of lines 251-362 for the trimmed, non-blank line.
HandleLine(st, coll, last, line, lnum) ==
    IF st = cStartState
    THEN LET h == handlecStartState(line, lnum)
         IN  IF h.err # Nil THEN Failed(st, coll, last, h.err)
             ELSE Parsed(cTopLevelState, [coll EXCEPT !.Name = h.name, !.Date = h.date], last)
    ELSE IF st = cTopLevelState
    THEN LET h == handlectopLevelState(line, lnum)
         IN  IF h.err # Nil THEN Failed(st, coll, last, h.err)
             ELSE Parsed(cGroupState, WithGroup(coll, h.name), last)
    ELSE IF st = cGroupState
    THEN LET h == handlecGroupState(line, lnum)
         IN  IF h.err # Nil THEN Failed(st, coll, last, h.err)
             ELSE Parsed(cVotingState, coll, h.name)
    ELSE IF st = cVotingState
    THEN LET h == handlecVotingState(line, lnum)
         IN  IF h.err # Nil THEN Failed(st, coll, last, h.err)
             ELSE IF Len(coll.Groups) = 0 \/ last = <<>>
             THEN Failed(st, coll, last, NewSyntaxError(lnum,
                      "Got voting option without a valid group or voting name"))
             ELSE IF h.vType = schulzeVoting
             THEN Parsed(cSchulzeOptionsState, WithSchulzeVoting(coll, last, h.str), <<>>)
             ELSE IF h.vType = medianVoting
             THEN IF parseConcurrency(h.str).err # Nil
                  THEN Failed(st, coll, last,
                           NewSyntaxError(lnum, Deref(parseConcurrency(h.str).err).message))
                  ELSE Parsed(cGroupOrVoting,
                           WithMedianVoting(coll, last, parseConcurrency(h.str).value), <<>>)
             ELSE Failed(st, coll, last, NewError("Invalid voting type"))
    ELSE IF st = cSchulzeOptionsState
    THEN LET h == handlecSchulzeOptionsState(line, lnum)
         IN  IF h.err # Nil THEN Failed(st, coll, last, h.err)
             ELSE IF h.resType = optionStateSchulzeOption
             THEN IF Len(coll.Groups) = 0
                  THEN Failed(st, coll, last,
                           NewSyntaxError(lnum, "Got Schulze option without a group"))
                  ELSE IF Len(coll.Groups[Len(coll.Groups)].SchulzeVotings) = 0
                  THEN Failed(st, coll, last,
                           NewSyntaxError(lnum, "Got Schulze option without a voting"))
                  ELSE Parsed(st, WithOption(coll, h.name), last)
             ELSE IF h.resType = optionStateVoting
             THEN Parsed(cVotingState, coll, h.name)
             ELSE IF h.resType = optionStateGroup
             THEN Parsed(cGroupState, WithGroup(coll, h.name), last)
             ELSE Failed(st, coll, last,
                      NewError("Invalid return state while parsing voting collection"))
    ELSE IF st = cGroupOrVoting
    THEN LET h == handlecGroupOrVoting(line, lnum)
         IN  IF h.err # Nil THEN Failed(st, coll, last, h.err)
             ELSE IF h.isVoting THEN Parsed(cVotingState, coll, h.name)
             ELSE Parsed(cGroupState, WithGroup(coll, h.name), last)
    ELSE Failed(st, coll, last, NewError("Invalid state while parsing voting collection"))

\* The lines of an input: of every kind the parser tells apart, well and
\* ill formed, blank, and too long for the Scanner.
TitleLine == <<"#", " ", "T", ":", ADate>>

TitleNoDate == <<"#", " ", "T">>

GroupLine == <<"#", "#", " ", "G">>

GroupIndented == <<" ", "#", "#", " ", "H", " ">>

GroupLongName == <<"#", "#", " ", LongName>>

VotingLine == <<"#", "#", "#", " ", "V">>

OptionLine == <<"*", " ", "O">>

MedianLine == <<"-", " ", "1", ".", "5">>

MedianNoNumber == <<"-", " ", "O">>

OtherLine == <<"O">>

BlankLine == <<" ">>

TooLongLine == <<LongLine>>

InputLines ==
    { TitleLine, TitleNoDate, GroupLine, GroupIndented, GroupLongName, VotingLine,
      OptionLine, MedianLine, MedianNoNumber, OtherLine, BlankLine, TooLongLine }

InitLocals ==
    /\ pc = "call"
    /\ mres = Nil
    /\ weightSum = 0
    /\ votesRequred = 0
    /\ d = <<>>
    /\ p = <<>>
    /\ percents = <<>>
    /\ wg = 0
    /\ pTask = "none"
    /\ cTask = "none"
    /\ res = <<>>
    /\ wgP = 0
    /\ seedPc = <<>>
    /\ wi = 0
    /\ candidateWins = <<>>
    /\ mutex = FALSE
    /\ wgRank = 0
    /\ rankPc = <<>>
    /\ appended = <<>>
    /\ ranked = <<>>
    /\ ret = Nil
    /\ err = Nil
    /\ input = <<>>
    /\ lineNumber = 1
    /\ state = cStartState
    /\ collection = NewVotingCollection
    /\ lastVotingName = <<>>

InitMedian ==
    /\ call = "median"
    /\ \/ \E m \in 0 .. MaxVotes : mvotes \in [1 .. m -> MedianVotes]
       \/ mvotes \in TestMedianInputs
    /\ given = mvotes
    /\ pNum \in Percents
    /\ votes = <<>>
    /\ n = 0
    /\ InitLocals

InitSchulze ==
    /\ call = "schulze"
    /\ \/ /\ n \in 0 .. MaxN
          /\ \E m \in 0 .. MaxCallVotes : votes \in [1 .. m -> SchulzeVotes(0 .. MaxN)]
       \/ /\ votes \in TestSchulzeCalls
          /\ n = Len(votes[1].Ranking)
    /\ pNum \in Percents
    /\ mvotes = <<>>
    /\ given = <<>>
    /\ InitLocals

Init == InitMedian \/ InitSchulze

InitFn ==
    /\ call = "fn"
    /\ \/ /\ n \in 0 .. MaxN
          /\ \E m \in 0 .. MaxVotes : votes \in [1 .. m -> SchulzeVotes({n})]
       \/ /\ votes \in TestSchulzeInputs
          /\ n = Len(votes[1].Ranking)
    /\ pNum = Half
    /\ mvotes = <<>>
    /\ given = <<>>
    /\ InitLocals

\* ------------------------------------------------------ EvaluateMedian
EvaluateMedian ==
    /\ call = "median"
    /\ pc = "call"
    /\ \E sorted \in SortMedianVotes(mvotes) :
          /\ mvotes' = sorted
          /\ mres' = Ptr(MedianResultOf(sorted, pNum))
    /\ pc' = "done"
    /\ UNCHANGED << parseVars, inputVars, given, weightSum, votesRequred, d, p, percents, wg, pTask,
                    cTask, computePVars, rankPVars, ret, err >>

\* ----------------------------------------------------- EvaluateSchulze
\* The position of the last such vote.
LastBadRanking(vs, N) ==
    LET bad == {a \in 1 .. Len(vs) : Len(vs[a].Ranking) # N}
    IN  IF bad = {} THEN 0 ELSE CHOOSE a \in bad : \A b \in bad : b <= a

\* Lines 504-509: the position of the first vote whose ranking has not
\* length N, 0 if there is none.
FirstBadRanking(vs, N) ==
    LET bad == {a \in 1 .. Len(vs) : Len(vs[a].Ranking) # N}
    IN  IF bad = {} THEN 0 ELSE CHOOSE a \in bad : \A b \in bad : a <= b

\* Lines 503-517 and the two go statements, or the return of line 507.
SchulzeStart ==
    /\ call = "schulze"
    /\ pc = "call"
    /\ LET bad == FirstBadRanking(votes, n)
       IN  \/ /\ bad # 0
              /\ err' = Ptr([expected |-> n, got |-> Len(votes[bad].Ranking)])
              /\ pc' = "done"
              /\ UNCHANGED << weightSum, votesRequred, d, wg, pTask, cTask >>
           \/ /\ bad = 0
              /\ weightSum' = WeightSum(votes)
              /\ votesRequred' = VotesRequiredOf(WeightSum(votes), pNum)
              /\ d' = computeD(votes, n)
              /\ wg' = 2
              /\ pTask' = "start"
              /\ cTask' = "start"
              /\ pc' = "wait"
              /\ UNCHANGED err
    /\ UNCHANGED << parseVars, inputVars, medianVars, p, percents, computePVars, rankPVars, ret >>

\* computeP, lines 573-590: res is made and the n goroutines are started.
ComputePStart ==
    /\ call = "schulze"
    /\ pTask = "start"
    /\ res' = NewIntMatrix(n)
    /\ wgP' = n
    /\ seedPc' = [i \in 0 .. n - 1 |-> "start"]
    /\ pTask' = "wait"
    /\ UNCHANGED << parseVars, inputVars, medianVars, pc, weightSum, votesRequred, d, p, percents, wg,
                    cTask, wi, rankPVars, ret, err >>

\* The goroutine of row i, lines 579-589, and its wg.Done().
SeedTask(i) ==
    /\ call = "schulze"
    /\ i \in DOMAIN seedPc
    /\ seedPc[i] = "start"
    /\ res' = SeedRow(res, d, n, i)
    /\ seedPc' = [seedPc EXCEPT ![i] = "done"]
    /\ wgP' = wgP - 1
    /\ UNCHANGED << parseVars, inputVars, medianVars, pc, weightSum, votesRequred, d, p, percents, wg,
                    pTask, cTask, wi, rankPVars, ret, err >>

\* A WaitGroup's Wait() returns when its counter is zero.
WaitReturns(counter) == counter = 0

\* A wait that returns at once.
SeedsNotJoined(counter) == TRUE

\* Line 591: the n goroutines have called wg.Done().
SeedsJoined(counter) == WaitReturns(counter)

ComputePWait ==
    /\ call = "schulze"
    /\ pTask = "wait"
    /\ SeedsJoined(wgP)
    /\ pTask' = "widen"
    /\ wi' = 0
    /\ UNCHANGED << parseVars, inputVars, medianVars, pc, weightSum, votesRequred, d, p, percents, wg,
                    cTask, res, wgP, seedPc, rankPVars, ret, err >>

\* An iteration of a computeP whose res is the caller's matrix d itself.
WidenAliased ==
    /\ call = "schulze"
    /\ pTask = "widen"
    /\ wi < n
    /\ res' = WidenIteration(res, n, wi)
    /\ d' = res'
    /\ wi' = wi + 1
    /\ UNCHANGED << parseVars, inputVars, medianVars, pc, weightSum, votesRequred, p, percents, wg,
                    pTask, cTask, wgP, seedPc, rankPVars, ret, err >>

\* One iteration of the loop of line 593.
Widen ==
    /\ call = "schulze"
    /\ pTask = "widen"
    /\ wi < n
    /\ res' = WidenIteration(res, n, wi)
    /\ wi' = wi + 1
    /\ UNCHANGED << parseVars, inputVars, medianVars, pc, weightSum, votesRequred, d, p, percents, wg,
                    pTask, cTask, wgP, seedPc, rankPVars, ret, err >>

\* Line 606, the assignment of line 520 and the deferred wg.Done().
ComputePReturn ==
    /\ call = "schulze"
    /\ pTask = "widen"
    /\ wi >= n
    /\ p' = res
    /\ wg' = wg - 1
    /\ pTask' = "done"
    /\ UNCHANGED << parseVars, inputVars, medianVars, pc, weightSum, votesRequred, d, percents, cTask,
                    computePVars, rankPVars, ret, err >>

\* The goroutine of lines 522-525.
PercentTask ==
    /\ call = "schulze"
    /\ cTask = "start"
    /\ percents' = computePercentage(d, n, weightSum)
    /\ wg' = wg - 1
    /\ cTask' = "done"
    /\ UNCHANGED << parseVars, inputVars, medianVars, pc, weightSum, votesRequred, d, p, pTask,
                    computePVars, rankPVars, ret, err >>

\* A wait that returns at once.
TasksNotJoined(counter) == TRUE

\* Line 526: the two goroutines of lines 518-525 have called wg.Done().
TasksJoined(counter) == WaitReturns(counter)

\* Line 526 returns; rankP, lines 613-635: the n goroutines are started.
RankPStart ==
    /\ call = "schulze"
    /\ pc = "wait"
    /\ TasksJoined(wg)
    /\ wgRank' = n
    /\ candidateWins' = <<>>
    /\ mutex' = FALSE
    /\ rankPc' = [i \in 0 .. n - 1 |-> "start"]
    /\ appended' = [i \in 0 .. n - 1 |-> <<>>]
    /\ pc' = "rank"
    /\ UNCHANGED << parseVars, inputVars, medianVars, weightSum, votesRequred, d, p, percents, wg,
                    pTask, cTask, computePVars, ranked, ret, err >>

\* A lock that is never held.
MutexIgnored(locked) == TRUE

\* mutex.Lock() returns when no goroutine holds the mutex.
MutexFree(locked) == ~locked

\* A wait that returns at once.
RanksNotJoined(counter) == TRUE

\* Line 636: the n goroutines have called wg.Done().
RanksJoined(counter) == WaitReturns(counter)

\* The goroutine of option i: lines 621-631, up to mutex.Lock() returning.
RankLock(i) ==
    /\ call = "schulze"
    /\ i \in DOMAIN rankPc
    /\ rankPc[i] = "start"
    /\ MutexFree(mutex)
    /\ mutex' = TRUE
    /\ rankPc' = [rankPc EXCEPT ![i] = "locked"]
    /\ UNCHANGED << parseVars, inputVars, medianVars, pc, weightSum, votesRequred, d, p, percents, wg,
                    pTask, cTask, computePVars, candidateWins, wgRank, appended, ranked,
                    ret, err >>

\* Line 632, right-hand side: the map is read and the option appended.
RankAppend(i) ==
    /\ call = "schulze"
    /\ i \in DOMAIN rankPc
    /\ rankPc[i] = "locked"
    /\ appended' = [appended EXCEPT ![i] = AppendedSlice(candidateWins, NumWins(p, n, i), i)]
    /\ rankPc' = [rankPc EXCEPT ![i] = "appended"]
    /\ UNCHANGED << parseVars, inputVars, medianVars, pc, weightSum, votesRequred, d, p, percents, wg,
                    pTask, cTask, computePVars, candidateWins, mutex, wgRank, ranked, ret,
                    err >>

\* A goroutine that returns without mutex.Unlock().
RankStoreLocked(i) ==
    /\ call = "schulze"
    /\ i \in DOMAIN rankPc
    /\ rankPc[i] = "appended"
    /\ candidateWins' = StoreWin(candidateWins, NumWins(p, n, i), appended[i])
    /\ wgRank' = wgRank - 1
    /\ rankPc' = [rankPc EXCEPT ![i] = "done"]
    /\ UNCHANGED << parseVars, inputVars, medianVars, pc, weightSum, votesRequred, d, p, percents, wg,
                    pTask, cTask, computePVars, mutex, appended, ranked, ret, err >>

\* Line 632, the assignment to the map; line 633 and the deferred wg.Done().
RankStore(i) ==
    /\ call = "schulze"
    /\ i \in DOMAIN rankPc
    /\ rankPc[i] = "appended"
    /\ candidateWins' = StoreWin(candidateWins, NumWins(p, n, i), appended[i])
    /\ mutex' = FALSE
    /\ wgRank' = wgRank - 1
    /\ rankPc' = [rankPc EXCEPT ![i] = "done"]
    /\ UNCHANGED << parseVars, inputVars, medianVars, pc, weightSum, votesRequred, d, p, percents, wg,
                    pTask, cTask, computePVars, appended, ranked, ret, err >>

\* Line 636 returns; lines 638-647 and 528-530.
RankPReturn ==
    /\ call = "schulze"
    /\ pc = "rank"
    /\ RanksJoined(wgRank)
    /\ ranked' = CollectRanked(candidateWins)
    /\ ret' = Ptr([VotesRequired |-> votesRequred, D |-> d, P |-> p,
                   Ranked |-> CollectRanked(candidateWins), Percents |-> percents])
    /\ pc' = "done"
    /\ UNCHANGED << parseVars, inputVars, medianVars, weightSum, votesRequred, d, p, percents, wg,
                    pTask, cTask, computePVars, candidateWins, mutex, wgRank, rankPc,
                    appended, err >>

Next ==
    \/ EvaluateMedian
    \/ SchulzeStart
    \/ ComputePStart
    \/ \E i \in 0 .. n - 1 : SeedTask(i)
    \/ ComputePWait
    \/ Widen
    \/ ComputePReturn
    \/ PercentTask
    \/ RankPStart
    \/ \E i \in 0 .. n - 1 : RankLock(i)
    \/ \E i \in 0 .. n - 1 : RankAppend(i)
    \/ \E i \in 0 .. n - 1 : RankStore(i)
    \/ RankPReturn

Spec == Init /\ [][Next]_vars

\* The calls whose termination is checked: every number of options, with
\* up to MaxLiveVotes ballots of every length.
InitLive ==
    /\ \/ /\ call = "median"
          /\ mvotes \in TestMedianInputs
          /\ votes = <<>>
          /\ n = 0
       \/ /\ call = "schulze"
          /\ n \in 0 .. MaxN
          /\ \E m \in 0 .. MaxLiveVotes : votes \in [1 .. m -> SchulzeVotes(0 .. MaxN)]
          /\ mvotes = <<>>
    /\ given = mvotes
    /\ pNum = Half
    /\ InitLocals

\* The Go scheduler runs a goroutine that can run: while a step of some
\* goroutine is possible, a step is taken.
SpecLive == InitLive /\ [][Next]_vars /\ WF_vars(Next)

\* ------------------------------------- the functions, one call a step
FnComputeD ==
    /\ call = "fn"
    /\ pc = "call"
    /\ weightSum' = WeightSum(votes)
    /\ d' = computeD(votes, n)
    /\ pc' = "wait"
    /\ UNCHANGED << parseVars, inputVars, medianVars, votesRequred, p, percents, wg, pTask, cTask,
                    computePVars, rankPVars, ret, err >>

FnComputeP ==
    /\ call = "fn"
    /\ pc = "wait"
    /\ pTask = "none"
    /\ p' = computeP(d, n)
    /\ pTask' = "done"
    /\ UNCHANGED << parseVars, inputVars, medianVars, pc, weightSum, votesRequred, d, percents, wg,
                    cTask, computePVars, rankPVars, ret, err >>

FnComputePercentage ==
    /\ call = "fn"
    /\ pc = "wait"
    /\ cTask = "none"
    /\ percents' = computePercentage(d, n, weightSum)
    /\ cTask' = "done"
    /\ UNCHANGED << parseVars, inputVars, medianVars, pc, weightSum, votesRequred, d, p, wg, pTask,
                    computePVars, rankPVars, ret, err >>

FnRankP ==
    /\ call = "fn"
    /\ pc = "wait"
    /\ pTask = "done"
    /\ cTask = "done"
    /\ \E order \in Orders(n) : ranked' = rankP(p, n, order)
    /\ pc' = "done"
    /\ UNCHANGED << parseVars, inputVars, medianVars, weightSum, votesRequred, d, p, percents, wg,
                    pTask, cTask, computePVars, candidateWins, mutex, wgRank, rankPc,
                    appended, ret, err >>

NextFn == FnComputeD \/ FnComputeP \/ FnComputePercentage \/ FnRankP

SpecFn == InitFn /\ [][NextFn]_vars

\* ---------------------------------------------- ParseVotingCollection
tallyVars ==
    << inputVars, medianVars, weightSum, votesRequred, d, p, percents, wg, pTask, cTask,
       computePVars, rankPVars >>

InitParse ==
    /\ call = "parse"
    /\ votes = <<>>
    /\ n = 0
    /\ pNum = Half
    /\ mvotes = <<>>
    /\ given = <<>>
    /\ InitLocals

\* scanner.Scan() returns a line that is blank once trimmed: lines 246-250.
ParseBlank ==
    /\ call = "parse"
    /\ pc = "call"
    /\ Len(input) < MaxLines
    /\ \E line \in InputLines :
          /\ ~ScanFails(line)
          /\ TrimSpace(line) = <<>>
          /\ input' = Append(input, line)
    /\ lineNumber' = lineNumber + 1
    /\ UNCHANGED << tallyVars, pc, state, collection, lastVotingName, ret, err >>

\* scanner.Scan() returns a line that is not blank: lines 246-247, the
\* switch of lines 251-362, and line 363 or the return of an error.
ParseLine ==
    /\ call = "parse"
    /\ pc = "call"
    /\ Len(input) < MaxLines
    /\ \E line \in InputLines :
          /\ ~ScanFails(line)
          /\ TrimSpace(line) # <<>>
          /\ input' = Append(input, line)
          /\ LET r == HandleLine(state, collection, lastVotingName, TrimSpace(line), lineNumber)
             IN  IF r.err # Nil
                 THEN /\ ret' = Nil
                      /\ err' = r.err
                      /\ pc' = "done"
                      /\ UNCHANGED << state, collection, lastVotingName, lineNumber >>
                 ELSE /\ state' = r.state
                      /\ collection' = r.collection
                      /\ lastVotingName' = r.lastVotingName
                      /\ lineNumber' = lineNumber + 1
                      /\ UNCHANGED << pc, ret, err >>
    /\ UNCHANGED tallyVars

\* scanner.Scan() returns false at the end of the input: line 365.
ParseEndOfInput ==
    /\ call = "parse"
    /\ pc = "call"
    /\ ret' = Ptr(collection)
    /\ err' = Nil
    /\ pc' = "done"
    /\ UNCHANGED << tallyVars, parseVars >>

\* scanner.Scan() returns false at a line that does not fit its buffer;
\* scanner.Err() is not looked at: line 365.
ParseLineTooLong ==
    /\ call = "parse"
    /\ pc = "call"
    /\ Len(input) < MaxLines
    /\ \E line \in InputLines :
          /\ ScanFails(line)
          /\ input' = Append(input, line)
    /\ ret' = Ptr(collection)
    /\ err' = Nil
    /\ pc' = "done"
    /\ UNCHANGED << tallyVars, lineNumber, state, collection, lastVotingName >>

NextParse == ParseBlank \/ ParseLine \/ ParseEndOfInput \/ ParseLineTooLong

SpecParse == InitParse /\ [][NextParse]_vars

\* ---------------------------------------------- what the claims speak of
\* The total weight of the ballots at the positions S of vs.
RECURSIVE SumWeights(_, _)
SumWeights(vs, S) ==
    IF S = {} THEN 0
    ELSE LET a == CHOOSE x \in S : TRUE
         IN  vs[a].Weight + SumWeights(vs, S \ {a})

TotalWeight(vs) == SumWeights(vs, DOMAIN vs)

SetMax(S) == CHOOSE x \in S : \A y \in S : y <= x

\* v = floor(total * pn / PercentDen)
IsFloor(v, total, pn) == v * PercentDen <= total * pn /\ total * pn < (v + 1) * PercentDen

MedianDone == call = "median" /\ pc = "done"

\* The total weight of the ballots of vs with a value of at least v.
WeightAtLeast(vs, v) == SumWeights(vs, {a \in DOMAIN vs : vs[a].Value >= v})

\* The values of vs that a majority supports: more than required weight is
\* on ballots of at least that value.
Supported(vs, required) ==
    {v \in {vs[a].Value : a \in DOMAIN vs} : WeightAtLeast(vs, v) > required}

\* The first position of the sorted list at which the running weight exceeds
\* required (0: there is none).
FirstExceeding(sorted, required) ==
    LET hits == {a \in DOMAIN sorted : SumWeights(sorted, 1 .. a) > required}
    IN  IF hits = {} THEN 0 ELSE CHOOSE a \in hits : \A b \in hits : a <= b

\* C1: EvaluateMedian returns as Value the value of the first ballot, in
\* descending value order, at which the running weight strictly exceeds
\* VotesRequired; that is the greatest ballot value v such that the ballots
\* of value >= v weigh more than VotesRequired.  The ballots of TestMedianOne
\* at 0.5 give VotesRequired = 5 and Value = 500.
C1_MedianValue ==
    MedianDone =>
        /\ FirstExceeding(mvotes, Deref(mres).VotesRequired) # 0 =>
              Deref(mres).Value = mvotes[FirstExceeding(mvotes, Deref(mres).VotesRequired)].Value
        /\ Supported(given, Deref(mres).VotesRequired) # {} =>
              Deref(mres).Value = SetMax(Supported(given, Deref(mres).VotesRequired))
        /\ (FirstExceeding(mvotes, Deref(mres).VotesRequired) # 0)
              <=> (Supported(given, Deref(mres).VotesRequired) # {})
        /\ (given = TestMedianOne /\ pNum = Half) =>
              Deref(mres) = [Value |-> 500, VotesRequired |-> 5]

\* The example of C1 has been evaluated: the majority value is neither the
\* greatest nor the least value voted for.
C1_Witness ==
    /\ MedianDone
    /\ given = TestMedianOne
    /\ pNum = Half
    /\ Deref(mres).Value = 500
    /\ Deref(mres).VotesRequired = 5
    /\ mvotes # given

Options == 0 .. n - 1

\* D has been computed (SpecFn).
FnHasD == call = "fn" /\ pc # "call"

\* P has been computed (SpecFn).
FnHasP == call = "fn" /\ pTask = "done"

\* rankP has returned (SpecFn).
FnRanked == call = "fn" /\ pc = "done"

\* The graph of the Schulze method: an edge a -> b of weight D[a][b] exactly
\* when D[a][b] > D[b][a].
Edge(D, a, b) == a # b /\ D[a][b] > D[b][a]

\* The strength of the strongest directed path from i to j that visits no
\* option of visited and no option twice; 0 if there is no such path.
RECURSIVE PathStrength(_, _, _, _, _)
PathStrength(D, N, i, j, visited) ==
    SetMax({0} \cup
           { IF k = j THEN D[i][k]
             ELSE IntMin(D[i][k], PathStrength(D, N, k, j, visited \cup {k})) :
             k \in {x \in (0 .. N - 1) \ visited : Edge(D, i, x)} })

StrongestPath(D, N, i, j) == PathStrength(D, N, i, j, {i})

ExpectedPTwo ==
    << <<0, 28, 28, 30, 24>>, <<25, 0, 28, 33, 24>>, <<25, 29, 0, 29, 24>>,
       <<25, 28, 28, 0, 24>>, <<25, 28, 28, 31, 0>> >>

ExpectedPThree == << <<0, 5, 5, 5>>, <<5, 0, 7, 5>>, <<5, 5, 0, 5>>, <<6, 5, 5, 0>> >>

\* The Go matrix m, a sequence of rows, as the model's function on 0..n-1.
Matrix(m) == [i \in 0 .. Len(m) - 1 |-> [j \in 0 .. Len(m) - 1 |-> m[i + 1][j + 1]]]

\* C2: for all options i # j, P[i][j] as computeP returns it is the maximum,
\* over the directed paths from i to j in the graph with an edge a -> b of
\* weight D[a][b] exactly when D[a][b] > D[b][a], of the least edge weight on
\* the path, and 0 when there is no such path.
C2_StrongestPath ==
    FnHasP =>
        /\ DOMAIN p = Options
        /\ \A i, j \in Options : i # j => p[i][j] = StrongestPath(d, n, i, j)

\* The strongest path between two options is an indirect one: P of
\* TestSchuleThree, where P[0][3] = 5 and D[0][3] = 3.
C2_Witness ==
    /\ FnHasP
    /\ votes = TestSchulzeThree
    /\ p = Matrix(ExpectedPThree)
    /\ \E i, j \in Options : i # j /\ p[i][j] > d[i][j] /\ p[i][j] = StrongestPath(d, n, i, j)

ExpectedDOne ==
    << <<0, 0, 2, 5, 3, 6>>, <<0, 0, 2, 5, 3, 6>>, <<3, 3, 0, 5, 3, 6>>,
       <<0, 0, 0, 0, 0, 4>>, <<0, 0, 2, 2, 0, 6>>, <<0, 0, 0, 2, 0, 0>> >>

\* The positions of the ballots of vs that rank option i strictly before j.
Preferring(vs, i, j) == {a \in DOMAIN vs : At(vs[a].Ranking, i) < At(vs[a].Ranking, j)}

\* C3: D[i][j] is the sum of the weights of exactly the ballots with
\* ranking[i] < ranking[j]; a ballot with ranking[i] = ranking[j] adds to
\* neither D[i][j] nor D[j][i]; every D[i][i] is 0.
C3_PairwiseMatrix ==
    FnHasD =>
        /\ DOMAIN d = Options
        /\ \A i \in Options : DOMAIN d[i] = Options /\ d[i][i] = 0
        /\ \A i, j \in Options : d[i][j] = SumWeights(votes, Preferring(votes, i, j))

\* D of TestSchulzeOne, whose ballots rank options equally: options 0 and 1
\* are never told apart, D[0][1] = D[1][0] = 0.
C3_Witness ==
    /\ FnHasD
    /\ votes = TestSchulzeOne
    /\ d = Matrix(ExpectedDOne)
    /\ \E a \in DOMAIN votes : votes[a].Weight > 0 /\ At(votes[a].Ranking, 0) = At(votes[a].Ranking, 1)

\* winCount[i]: the options j # i with P[i][j] > P[j][i].
WinCount(P, N, i) == Cardinality({j \in (0 .. N - 1) \ {i} : P[i][j] > P[j][i]})

\* The positions of the groups of R that hold option x.
GroupsOf(R, x) == {g \in DOMAIN R : x \in Range(R[g])}

\* C4: rankP groups the options by winCount: two options are in the same
\* group of Ranked exactly when their winCount is equal, and the groups are
\* in strictly descending winCount order.  The ballots of TestSchulzeTwo
\* give [[4],[0],[2],[1],[3]].
C4_RankByWinCount ==
    FnRanked =>
        /\ \A x \in Options : GroupsOf(ranked, x) # {}
        /\ \A x, y \in Options :
              (GroupsOf(ranked, x) \cap GroupsOf(ranked, y) # {})
                  <=> (WinCount(p, n, x) = WinCount(p, n, y))
        /\ \A g, h \in DOMAIN ranked : g < h =>
              \A x \in Range(ranked[g]), y \in Range(ranked[h]) :
                  WinCount(p, n, x) > WinCount(p, n, y)
        /\ votes = TestSchulzeTwo => ranked = << <<4>>, <<0>>, <<2>>, <<1>>, <<3>> >>

\* The ranking of TestSchulzeTwo.
C4_Witness ==
    /\ FnRanked
    /\ votes = TestSchulzeTwo
    /\ p = Matrix(ExpectedPTwo)
    /\ ranked = << <<4>>, <<0>>, <<2>>, <<1>>, <<3>> >>

SchulzeDone == call = "schulze" /\ pc = "done"

\* The positions of the ballots whose ranking has not length N.
WrongLength(vs, N) == {a \in DOMAIN vs : Len(vs[a].Ranking) # N}

\* C5: EvaluateSchulze returns an error and no result exactly when a ballot's
\* ranking length differs from n; the error reports n and the length of the
\* offending ballot (the first one, when there are several); when every
\* ranking has length n it returns a result and a nil error.  A call with an
\* offending ballot computes nothing before it returns.
C5_ValidationError ==
    /\ SchulzeDone =>
          /\ (err # Nil) <=> (WrongLength(votes, n) # {})
          /\ (err # Nil) <=> (ret = Nil)
          /\ err # Nil =>
                /\ Deref(err).expected = n
                /\ \E a \in WrongLength(votes, n) :
                      /\ Deref(err).got = Len(votes[a].Ranking)
                      /\ \A b \in WrongLength(votes, n) : a <= b
    /\ (call = "schulze" /\ WrongLength(votes, n) # {}) => pc \in {"call", "done"}

\* Two offending ballots of different lengths: the first is reported.
C5_Witness ==
    /\ SchulzeDone
    /\ err # Nil
    /\ Cardinality(WrongLength(votes, n)) = 2
    /\ Len(votes[1].Ranking) # Len(votes[2].Ranking)
    /\ Deref(err) = [expected |-> n, got |-> Len(votes[1].Ranking)]

\* 0, 1, ..., N-1: the goroutines in the order of their go statements.
InOrder(N) == [a \in 1 .. N |-> a - 1]

\* The result of the call when every goroutine runs to its end as it is
\* started.
ResultInOrder ==
    LET D == computeD(votes, n)
        P == computeP(D, n)
    IN  [VotesRequired |-> VotesRequiredOf(WeightSum(votes), pNum),
         D |-> D,
         P |-> P,
         Ranked |-> rankP(P, n, InOrder(n)),
         Percents |-> computePercentage(D, n, WeightSum(votes))]

\* C6 as claimed: the result of EvaluateSchulze, the order of the options
\* inside each group of Ranked included, is the same under every
\* interleaving of its goroutines: every run returns what the run returns
\* in which the goroutines run in the order they are started.
C6_Original == (SchulzeDone /\ ret # Nil) => Deref(ret) = ResultInOrder

\* R and S are the same groups in the same order: they differ at most in the
\* order of the options inside a group.
SameGroups(R, S) ==
    /\ Len(R) = Len(S)
    /\ \A g \in DOMAIN R : Len(R[g]) = Len(S[g]) /\ Range(R[g]) = Range(S[g])

\* C6 as amended: VotesRequired, D, P and Percents are the same under every
\* interleaving, and so is Ranked up to the order of the options inside a
\* group.
C6_Amended ==
    (SchulzeDone /\ ret # Nil) =>
        /\ Deref(ret).VotesRequired = ResultInOrder.VotesRequired
        /\ Deref(ret).D = ResultInOrder.D
        /\ Deref(ret).P = ResultInOrder.P
        /\ Deref(ret).Percents = ResultInOrder.Percents
        /\ SameGroups(Deref(ret).Ranked, ResultInOrder.Ranked)

\* A run whose Ranked differs from that of the run in start order, after
\* widening has changed P.
C6_Witness ==
    /\ SchulzeDone
    /\ ret # Nil
    /\ Deref(ret).Ranked # ResultInOrder.Ranked
    /\ n >= 3
    /\ \E i, j \in Options : i # j /\ d[i][j] <= d[j][i] /\ Deref(ret).P[i][j] > 0

\* The options that beat every other option pairwise.
CondorcetWinners(D, N) == {c \in 0 .. N - 1 : \A j \in (0 .. N - 1) \ {c} : D[c][j] > D[j][c]}

\* C7: if an option c has D[c][j] > D[j][c] for every j # c, the first
\* group of Ranked is exactly [c].
C7_Condorcet ==
    (FnRanked /\ n >= 1) =>
        \A c \in CondorcetWinners(d, n) : Len(ranked) >= 1 /\ ranked[1] = <<c>>

\* A Condorcet winner over two options that do not tie behind it.
C7_Witness ==
    /\ FnRanked
    /\ n = 3
    /\ CondorcetWinners(d, n) # {}
    /\ Len(ranked) = 3
    /\ \E a \in DOMAIN votes : \E c \in CondorcetWinners(d, n) :
          votes[a].Weight > 0 /\ At(votes[a].Ranking, c) # 0

C9_Original ==
    FnHasP => \A i, j, k \in Options : p[j][k] >= IntMin(p[j][i], p[i][k])

\* C9 as amended: the inequality holds for all i, j, k with j # k.
C9_Amended ==
    FnHasP => \A i, j, k \in Options : j # k => p[j][k] >= IntMin(p[j][i], p[i][k])

\* Two options on a cycle, each with a path to the other, and a third option
\* between them: P[j][j] = 0 is below min(P[j][i], P[i][j]).
C9_Witness ==
    /\ FnHasP
    /\ \E i, j, k \in Options :
          /\ i # j /\ j # k /\ i # k
          /\ p[j][i] > 0 /\ p[i][j] > 0 /\ p[i][k] > 0
          /\ p[j][k] > (IF d[j][k] > d[k][j] THEN d[j][k] ELSE 0)
          /\ p[j][j] = 0

\* C10: for all i # j, D[i][j] + D[j][i] <= totalWeight.
C10_PairSumBound ==
    FnHasD => \A i, j \in Options : i # j => d[i][j] + d[j][i] <= TotalWeight(votes)

\* One pair of options that every ballot tells apart and one that a ballot
\* of positive weight ranks equally.
C10_Witness ==
    /\ FnHasD
    /\ TotalWeight(votes) >= 2
    /\ \E i, j \in Options : i # j /\ d[i][j] > 0 /\ d[j][i] > 0 /\ d[i][j] + d[j][i] = TotalWeight(votes)
    /\ \E i, j \in Options : i # j /\ d[i][j] + d[j][i] < TotalWeight(votes)

\* The positions of the ballots of vs that rank options i and j equally.
Indifferent(vs, i, j) == {a \in DOMAIN vs : At(vs[a].Ranking, i) = At(vs[a].Ranking, j)}

\* C11 as claimed: for all i # j, D[i][j] + D[j][i] = totalWeight exactly
\* when no ballot ranks i and j equally.
C11_Original ==
    FnHasD => \A i, j \in Options : i # j =>
        ((d[i][j] + d[j][i] = TotalWeight(votes)) <=> (Indifferent(votes, i, j) = {}))

\* C11 as amended: for all i # j, D[i][j] + D[j][i] = totalWeight exactly
\* when no ballot of positive weight ranks i and j equally.
C11_Amended ==
    FnHasD => \A i, j \in Options : i # j =>
        ((d[i][j] + d[j][i] = TotalWeight(votes))
            <=> (\A a \in Indifferent(votes, i, j) : votes[a].Weight = 0))

\* A ballot of weight 0 that ranks two options equally, which the other
\* ballots tell apart: the sum is the total weight; and a pair that a ballot
\* of positive weight ranks equally: the sum is below it.
C11_Witness ==
    /\ FnHasD
    /\ TotalWeight(votes) > 0
    /\ \E i, j \in Options :
          /\ i # j
          /\ \E a \in Indifferent(votes, i, j) : votes[a].Weight = 0
          /\ d[i][j] + d[j][i] = TotalWeight(votes)
    /\ \E i, j \in Options :
          /\ i # j
          /\ \E a \in Indifferent(votes, i, j) : votes[a].Weight > 0
          /\ d[i][j] + d[j][i] < TotalWeight(votes)

\* The places <<g, a>> of R that hold option x.
PlacesOf(R, x) == {pl \in {<<g, a>> : g \in DOMAIN R, a \in 1 .. MaxN + 1} :
                      pl[2] \in DOMAIN R[pl[1]] /\ R[pl[1]][pl[2]] = x}

\* C12: the groups of Ranked are a partition of the options 0..n-1: every
\* option is at exactly one place of exactly one group, every member of a
\* group is an option, no group is empty and there are at most n groups,
\* under every interleaving of the goroutines.
C12_RankedPartition ==
    (SchulzeDone /\ ret # Nil) =>
        /\ \A x \in Options : Cardinality(PlacesOf(Deref(ret).Ranked, x)) = 1
        /\ \A g \in DOMAIN Deref(ret).Ranked :
              /\ Deref(ret).Ranked[g] # <<>>
              /\ Len(Deref(ret).Ranked[g]) <= n
              /\ Range(Deref(ret).Ranked[g]) \subseteq Options
        /\ Len(Deref(ret).Ranked) <= n

\* Three options in two groups, the two options of equal win count appended
\* in the reverse of the order in which their goroutines were started.
C12_Witness ==
    /\ SchulzeDone
    /\ ret # Nil
    /\ n = 3
    /\ Len(Deref(ret).Ranked) = 2
    /\ \E g \in DOMAIN Deref(ret).Ranked :
          /\ Len(Deref(ret).Ranked[g]) = 2
          /\ Deref(ret).Ranked[g][1] > Deref(ret).Ranked[g][2]

\* A call of EvaluateMedian that has not returned.
MedianCalled == call = "median" /\ pc = "call"

\* C13: EvaluateMedian never fails: every call returns, and returns a
\* result; for the empty ballot list the result is Value = 0 and
\* VotesRequired = 0.
C13_MedianNeverFails ==
    /\ MedianCalled => ENABLED EvaluateMedian
    /\ MedianDone => mres # Nil
    /\ (MedianDone /\ given = <<>>) => Deref(mres) = [Value |-> 0, VotesRequired |-> 0]

\* The call with no ballot has returned the zero result.
C13_Witness ==
    /\ MedianDone
    /\ given = <<>>
    /\ mvotes = <<>>
    /\ mres = Ptr([Value |-> 0, VotesRequired |-> 0])

\* computePercentage has returned (SpecFn).
FnHasPercents == call = "fn" /\ cTask = "done"

\* The float64 x, a fraction <<numerator, denominator>>, is a / b.
IsQuotient(x, a, b) == x[2] > 0 /\ x[1] * b = a * x[2]

\* C14: for n >= 1 computePercentage returns exactly n-1 entries, entry i
\* being D[i][n-1] / totalWeight, and every entry being 0 when
\* totalWeight = 0.
C14_Percentages ==
    (FnHasPercents /\ n >= 1) =>
        /\ Len(percents) = n - 1
        /\ TotalWeight(votes) # 0 =>
              \A i \in 0 .. n - 2 : IsQuotient(At(percents, i), d[i][n - 1], TotalWeight(votes))
        /\ TotalWeight(votes) = 0 =>
              \A i \in 0 .. n - 2 : At(percents, i) = FloatZero

\* The percentages of TestSchulzeOne: option 3 is before the last option
\* on ballots of weight 4 of 6, the other options on all ballots.
C14_Witness ==
    /\ FnHasPercents
    /\ votes = TestSchulzeOne
    /\ percents = << <<1, 1>>, <<1, 1>>, <<1, 1>>, <<2, 3>>, <<1, 1>> >>

\* C15 as claimed: no step of EvaluateMedian or EvaluateSchulze changes the
\* caller's ballot sequence: after the call it holds the same ballots in the
\* same order as before.
C15_BallotsImmutable == [][mvotes' = mvotes /\ votes' = votes]_vars

\* EvaluateMedian has returned and the caller's slice is in another order
\* than the caller gave it; the ballots themselves are the same.
C15_Witness ==
    /\ MedianDone
    /\ mvotes # given
    /\ IsPermutationOf(mvotes, given)

\* C16: computeP on the same D yields the same P in every run, whatever the
\* interleaving of its seed goroutines: when the seed goroutines are joined
\* res is the seed matrix of D, and the P returned is the P of the run in
\* which the goroutines run in the order they are started.
C16_ComputePDeterministic ==
    /\ (call = "schulze" /\ pTask = "widen" /\ wi = 0) => res = SeedAll(NewIntMatrix(n), d, n, 0)
    /\ (call = "schulze" /\ pTask = "done") => p = computeP(d, n)

\* computeP has returned the P of TestSchuleThree from a concurrent run.
C16_Witness ==
    /\ call = "schulze"
    /\ pTask = "done"
    /\ votes = TestSchulzeThree
    /\ \A i \in Options : seedPc[i] = "done"
    /\ p = Matrix(ExpectedPThree)
    /\ p # SeedAll(NewIntMatrix(n), d, n, 0)

\* computeD has just returned (SpecFn).
FnJustHasD == call = "fn" /\ pc = "wait" /\ pTask = "none" /\ cTask = "none"

\* The ballots of vs at the positions S, in the order of vs.
RECURSIVE BallotsAt(_, _)
BallotsAt(vs, S) ==
    IF S = {} THEN <<>>
    ELSE LET a == CHOOSE x \in S : \A y \in S : x <= y
         IN  <<vs[a]>> \o BallotsAt(vs, S \ {a})

\* The shard k of vs when ballot a is assigned to shard assign[a].
Shard(vs, assign, k) == BallotsAt(vs, {a \in DOMAIN vs : assign[a] = k})

\* The elementwise sum of two N x N matrices.
MatrixAdd(A, B, N) == [i \in 0 .. N - 1 |-> [j \in 0 .. N - 1 |-> A[i][j] + B[i][j]]]

\* The matrices computeD builds for the shards k, k+1, ..., MaxShards-1.
RECURSIVE ShardMatrices(_, _, _, _)
ShardMatrices(vs, assign, N, k) ==
    IF k >= MaxShards THEN <<>>
    ELSE <<computeD(Shard(vs, assign, k), N)>> \o ShardMatrices(vs, assign, N, k + 1)

\* The partial matrices summed in the order given.
RECURSIVE MergeInOrder(_, _, _, _)
MergeInOrder(acc, parts, N, order) ==
    IF order = <<>> THEN acc
    ELSE MergeInOrder(MatrixAdd(acc, At(parts, order[1]), N), parts, N, Tail(order))

\* C17: for every assignment of the ballots to shards and every order in
\* which the shards' matrices are summed, the elementwise sum of the
\* matrices computeD builds for the shards is the matrix computeD builds
\* for the whole list.  A ballot list with no ballot for a shard gives that
\* shard the zero matrix.
C17_ShardedD ==
    FnJustHasD =>
        LET orders == Orders(MaxShards)
            zero == NewIntMatrix(n)
        IN  \A assign \in [DOMAIN votes -> 0 .. MaxShards - 1] :
                \A parts \in {ShardMatrices(votes, assign, n, 0)} :
                    \A order \in orders : MergeInOrder(zero, parts, n, order) = d

\* Three ballots, one to a shard, each of which adds to D.
C17_Witness ==
    /\ FnJustHasD
    /\ n >= 2
    /\ Len(votes) = MaxShards
    /\ \A a \in DOMAIN votes : computeD(<<votes[a]>>, n) # NewIntMatrix(n)
    /\ \E i, j \in Options : d[i][j] >= 2

\* The VotesRequired that EvaluateMedian returns for the ballots vs at
\* percentRequired = q / PercentDen: the same for every outcome of the sort.
MedianVotesRequiredAt(vs, q) ==
    LET sorted == CHOOSE s \in SortMedianVotes(vs) : TRUE
    IN  MedianResultOf(sorted, q).VotesRequired

\* C18: for a fixed ballot list, the VotesRequired of EvaluateMedian is
\* non-decreasing in percentRequired: the call at pNum returns at least
\* what a call at a smaller percentRequired returns, and at most what a
\* call at a greater one returns.
C18_VotesRequiredMonotone ==
    MedianDone =>
        \A q \in Percents :
            /\ q <= pNum => MedianVotesRequiredAt(given, q) <= Deref(mres).VotesRequired
            /\ q >= pNum => MedianVotesRequiredAt(given, q) >= Deref(mres).VotesRequired

\* TestMedianOne at 0.5, where VotesRequired is strictly between those at
\* 0.25 and at 0.75.
C18_Witness ==
    /\ MedianDone
    /\ given = TestMedianOne
    /\ pNum = Half
    /\ \E q1, q2 \in Percents :
          /\ q1 < pNum /\ pNum < q2
          /\ MedianVotesRequiredAt(given, q1) < Deref(mres).VotesRequired
          /\ Deref(mres).VotesRequired < MedianVotesRequiredAt(given, q2)

\* The permutations of the ballot list vs.
PermutationsOf(vs) == {s \in [1 .. Len(vs) -> Range(vs)] : IsPermutationOf(s, vs)}

\* C19: the result of EvaluateMedian is the same for every permutation of
\* the ballot list and every outcome of the unstable sort: each of them
\* gives the Value and VotesRequired that the call returned.
C19_MedianPermutationInvariant ==
    MedianDone =>
        \A perm \in PermutationsOf(given) :
            \A sorted \in SortMedianVotes(perm) :
                MedianResultOf(sorted, pNum) = Deref(mres)

\* Three ballots, two of them of the value returned and of different
\* weight, which the sort may leave in either order, given unsorted.
C19_Witness ==
    /\ MedianDone
    /\ Len(given) = 3
    /\ ~DescendingByValue(given)
    /\ \E a, b \in DOMAIN given :
          /\ given[a].Value = given[b].Value
          /\ given[a].Weight # given[b].Weight
          /\ Deref(mres).Value = given[a].Value
    /\ Deref(mres).Value > 0
    /\ Cardinality(SortMedianVotes(given)) > 1

\* An iteration of the widening loop is about to run (Spec).
Widening == call = "schulze" /\ pTask = "widen" /\ wi < n

\* The pairs (j, k) that iteration i updates: lines 595 and 599 skip the
\* others.
WidenPairs(N, i) ==
    {pr \in (0 .. N - 1) \X (0 .. N - 1) : pr[1] # i /\ pr[2] # i /\ pr[1] # pr[2]}

\* The cells the update of (j, k) in iteration i reads and writes, line 602.
WidenReads(i, j, k) == {<<j, k>>, <<j, i>>, <<i, k>>}

WidenWrites(i, j, k) == {<<j, k>>}

\* The pairs of S in the order in which the loops of lines 594 and 598
\* reach them: by j, then by k.
RECURSIVE InLoopOrder(_)
InLoopOrder(S) ==
    IF S = {} THEN <<>>
    ELSE LET first == CHOOSE x \in S : \A y \in S :
                          x[1] < y[1] \/ (x[1] = y[1] /\ x[2] <= y[2])
         IN  <<first>> \o InLoopOrder(S \ {first})

\* The updates of iteration i made one after the other in the order of seq.
RECURSIVE UpdateInOrder(_, _, _)
UpdateInOrder(M, i, seq) ==
    IF seq = <<>> THEN M
    ELSE LET next == WidenStep(M, i, seq[1][1], seq[1][2])
         IN  IF next = M THEN UpdateInOrder(M, i, Tail(seq))
             ELSE UpdateInOrder(next, i, Tail(seq))

\* The updates of iteration i made all at once, each from the matrix as the
\* iteration found it.
UpdateAtOnce(M, N, i) ==
    [j \in 0 .. N - 1 |-> [k \in 0 .. N - 1 |->
        IF <<j, k>> \in WidenPairs(N, i) THEN WidenStep(M, i, j, k)[j][k] ELSE M[j][k]]]

\* seq in the order perm, a permutation of its positions.
Reordered(seq, perm) == [a \in DOMAIN seq |-> seq[perm[a]]]

Reversed(seq) == [a \in DOMAIN seq |-> seq[Len(seq) + 1 - a]]

\* C20 as claimed: in an iteration of the widening loop that makes more
\* than one update, a later update reads a cell that an earlier update of
\* the same iteration wrote.
C20_Original ==
    (Widening /\ Cardinality(WidenPairs(n, wi)) > 1) =>
        \E a, b \in DOMAIN InLoopOrder(WidenPairs(n, wi)) :
            /\ a < b
            /\ WidenWrites(wi, InLoopOrder(WidenPairs(n, wi))[a][1],
                                InLoopOrder(WidenPairs(n, wi))[a][2])
                  \cap WidenReads(wi, InLoopOrder(WidenPairs(n, wi))[b][1],
                                      InLoopOrder(WidenPairs(n, wi))[b][2]) # {}

\* C20 as amended: in an iteration of the widening loop no update reads a
\* cell that another update of the same iteration writes, and the result of
\* the iteration is the same in every order of its updates: in the order of
\* the loops, in the reverse order, with all updates made at once, and (up
\* to MaxN + 1 options) in every other order.
C20_Amended ==
    Widening =>
        LET pairs == WidenPairs(n, wi)
            seq == InLoopOrder(pairs)
            after == WidenIteration(res, n, wi)
        IN  /\ \A x, y \in pairs :
                  x # y => WidenWrites(wi, x[1], x[2]) \cap WidenReads(wi, y[1], y[2]) = {}
            /\ UpdateInOrder(res, wi, seq) = after
            /\ UpdateInOrder(res, wi, Reversed(seq)) = after
            /\ UpdateAtOnce(res, n, wi) = after
            /\ n <= MaxN + 1 =>
                  \A perm \in Permutations(DOMAIN seq) :
                      UpdateInOrder(res, wi, Reordered(seq, perm)) = after

\* An iteration over four options that is about to change more than one
\* cell of res.
C20_Witness ==
    /\ Widening
    /\ n = 4
    /\ Cardinality({pr \in WidenPairs(n, wi) :
            WidenStep(res, wi, pr[1], pr[2]) # res}) > 1

\* ------------------------------------------------- the memory written
\* A memory location: <<"res", i, j>> is the cell res[i][j] of computeP's
\* matrix, <<"candidateWins", k, 0>> the entry of key k of rankP's map,
\* <<"p", 0, 0>> and <<"percents", 0, 0>> the variables of EvaluateSchulze.
\* The cells the seed goroutine of row i can assign, line 586.
SeedWrites(N, i) == {<<"res", i, j>> : j \in (0 .. N - 1) \ {i}}

\* The cells the widening loops can assign, line 602.
WidenLoopWrites(N) ==
    {<<"res", j, k>> : j \in 0 .. N - 1, k \in 0 .. N - 1} \ {<<"res", j, j>> : j \in 0 .. N - 1}

\* What the goroutine of lines 518-521 writes: res, through computeP's
\* loops, and p.
PTaskWrites(N) == WidenLoopWrites(N) \cup {<<"p", 0, 0>>}

\* What the goroutine of lines 522-525 writes.
CTaskWrites == {<<"percents", 0, 0>>}

\* The map entry the goroutine of option i assigns, line 632.
RankWrites(P, N, i) == {<<"candidateWins", NumWins(P, N, i), 0>>}

\* The goroutines that have been started and have not finished.
SeedsRunning == {i \in DOMAIN seedPc : seedPc[i] = "start"}

RanksRunning == {i \in DOMAIN rankPc : rankPc[i] # "done"}

\* The goroutines between mutex.Lock() and mutex.Unlock().
InCriticalSection == {i \in DOMAIN rankPc : rankPc[i] \in {"locked", "appended"}}

PTaskRunning == call = "schulze" /\ pTask \in {"start", "wait", "widen"}

CTaskRunning == call = "schulze" /\ cTask = "start"

\* C21 as claimed: goroutines that run at the same time write disjoint
\* memory: two seed goroutines, the goroutine of computeP and the one of
\* computePercentage, and two goroutines of rankP.
C21_Original ==
    /\ \A i, j \in SeedsRunning : i # j => SeedWrites(n, i) \cap SeedWrites(n, j) = {}
    /\ (PTaskRunning /\ CTaskRunning) => PTaskWrites(n) \cap CTaskWrites = {}
    /\ \A i, j \in RanksRunning : i # j => RankWrites(p, n, i) \cap RankWrites(p, n, j) = {}

\* The steps of the goroutines change only what they are said to write.
StepsWriteOwn ==
    /\ \A i \in DOMAIN seedPc \cap DOMAIN seedPc' :
          (seedPc[i] = "start" /\ seedPc'[i] = "done") =>
              /\ \A a, b \in Options : res'[a][b] # res[a][b] => <<"res", a, b>> \in SeedWrites(n, i)
              /\ p' = p /\ percents' = percents /\ candidateWins' = candidateWins
    /\ (cTask = "start" /\ cTask' = "done") =>
          res' = res /\ p' = p /\ candidateWins' = candidateWins
    /\ (pTask # pTask' \/ wi # wi') => percents' = percents /\ candidateWins' = candidateWins
    /\ \A i \in DOMAIN rankPc \cap DOMAIN rankPc' :
          rankPc[i] # rankPc'[i] =>
              /\ res' = res /\ p' = p /\ percents' = percents
              /\ \A k \in DOMAIN candidateWins \cup DOMAIN candidateWins' :
                    (\/ k \notin DOMAIN candidateWins
                     \/ k \notin DOMAIN candidateWins'
                     \/ candidateWins'[k] # candidateWins[k])
                        => /\ rankPc[i] = "appended"
                           /\ <<"candidateWins", k, 0>> \in RankWrites(p, n, i)

\* What holds of the goroutines running at the same time.
WritesKeptApart ==
    /\ \A i, j \in SeedsRunning : i # j => SeedWrites(n, i) \cap SeedWrites(n, j) = {}
    /\ (PTaskRunning /\ CTaskRunning) => PTaskWrites(n) \cap CTaskWrites = {}
    /\ Cardinality(InCriticalSection) <= 1
    /\ (InCriticalSection # {}) <=> mutex

\* C21 as amended: each seed goroutine writes only cells of its own row of
\* res, the goroutines of computeP and of computePercentage write disjoint
\* outputs, and the goroutines of rankP all write the one map
\* candidateWins, two options of equal win count the same entry of it; the
\* mutex keeps these writes apart, at most one goroutine being between Lock
\* and Unlock at a time.
C21_Amended == []WritesKeptApart /\ [][StepsWriteOwn]_vars

\* Two goroutines of rankP with the same win count, one of them holding the
\* mutex and the other waiting for it, after a third option has stored its
\* slice in the entry both write.
C21_Witness ==
    /\ call = "schulze"
    /\ pc = "rank"
    /\ n = 3
    /\ \E i, j \in RanksRunning :
          /\ i # j
          /\ RankWrites(p, n, i) = RankWrites(p, n, j)
          /\ rankPc[i] = "appended"
          /\ rankPc[j] = "start"
          /\ NumWins(p, n, i) \in DOMAIN candidateWins

\* C22: the phases of EvaluateSchulze are separated by joins in every
\* interleaving: while the widening loop runs and after it every seed
\* goroutine has finished, and while rankP runs and when the result is
\* assembled the goroutines of computeP and of computePercentage have both
\* finished, p and percents being what they returned.
C22_PhasesJoined ==
    /\ (call = "schulze" /\ pTask \in {"widen", "done"}) =>
          /\ DOMAIN seedPc = Options
          /\ \A i \in Options : seedPc[i] = "done"
          /\ wgP = 0
    /\ (call = "schulze" /\ (pc = "rank" \/ ret # Nil)) =>
          /\ pTask = "done"
          /\ cTask = "done"
          /\ wg = 0
          /\ wi = n
    /\ (call = "schulze" /\ rankPc # <<>>) => pc \in {"rank", "done"}

\* The widening loop has changed res after the seed goroutines of the four
\* options of TestSchulzeThree were joined, while the goroutine of
\* computePercentage has not run and EvaluateSchulze waits for both.
C22_Witness ==
    /\ call = "schulze"
    /\ pc = "wait"
    /\ votes = TestSchulzeThree
    /\ pTask = "widen"
    /\ wi > 0
    /\ res # SeedAll(NewIntMatrix(n), d, n, 0)
    /\ cTask = "start"
    /\ wg = 2

\* C23: computeP and computePercentage only read D: while their goroutines
\* run and after they have finished, d is the matrix computeD built from the
\* ballots, and so is the D of the SchulzeRes returned.
C23_DReadOnly ==
    /\ (call = "schulze" /\ pc \in {"wait", "rank"}) => d = computeD(votes, n)
    /\ (SchulzeDone /\ ret # Nil) => d = computeD(votes, n) /\ Deref(ret).D = d

\* The result for TestSchulzeTwo: widening and the percentages are done, P
\* differs from D, and D[0][1] is still 20.
C23_Witness ==
    /\ SchulzeDone
    /\ ret # Nil
    /\ votes = TestSchulzeTwo
    /\ Deref(ret).D[0][1] = 20
    /\ Deref(ret).P[0][1] = 28
    /\ Deref(ret).P # Deref(ret).D
    /\ Len(Deref(ret).Percents) = 4

\* Every goroutine of the call has finished, every WaitGroup counter is
\* zero and the mutex is free.
Quiescent ==
    /\ wg = 0 /\ wgP = 0 /\ wgRank = 0
    /\ ~mutex
    /\ pTask = "done" /\ cTask = "done"
    /\ DOMAIN seedPc = Options /\ \A i \in Options : seedPc[i] = "done"
    /\ DOMAIN rankPc = Options /\ \A i \in Options : rankPc[i] = "done"

\* C24: under fair scheduling every call of EvaluateSchulze returns: with
\* an error if a ranking has not length n, and else with a result, every
\* WaitGroup counter at zero, every goroutine finished and the mutex free;
\* a mutex that is held is released; no counter falls below zero; and no
\* state before the return is one in which no goroutine can take a step.
C24_Terminates ==
    /\ (call = "schulze") ~> (SchulzeDone /\ (ret # Nil => Quiescent) /\ (ret # Nil \/ err # Nil))
    /\ mutex ~> ~mutex
    /\ [](wg >= 0 /\ wgP >= 0 /\ wgRank >= 0)
    /\ []((call = "schulze" /\ pc # "done") => ENABLED Next)

\* A call with three options has returned its result, the three goroutines
\* of rankP having stored their options in an order other than that of
\* their start.
C24_Witness ==
    /\ SchulzeDone
    /\ ret # Nil
    /\ n = 3
    /\ Quiescent
    /\ \E g \in DOMAIN ranked : Len(ranked[g]) = 3 /\ ranked[g][1] = 2

\* C25: the ranking respects the beat relation of P: for all options i # j
\* with P[i][j] > P[j][i], option i is in a group of Ranked strictly before
\* the group of option j; two options of the same group have
\* P[i][j] = P[j][i].
C25_RankRespectsBeats ==
    FnRanked =>
        \A i, j \in Options : i # j =>
            /\ GroupsOf(ranked, i) # {}
            /\ p[i][j] > p[j][i] =>
                  \A g \in GroupsOf(ranked, i), h \in GroupsOf(ranked, j) : g < h
            /\ GroupsOf(ranked, i) \cap GroupsOf(ranked, j) # {} => p[i][j] = p[j][i]

\* TestSchulzeTwo: option 1 is before option 0 on ballots of weight 25 of
\* 45, option 0 beats option 1 by its stronger path and is ranked before it.
C25_Witness ==
    /\ FnRanked
    /\ votes = TestSchulzeTwo
    /\ d[0][1] < d[1][0]
    /\ p[0][1] > p[1][0]
    /\ \E g, h \in DOMAIN ranked : g < h /\ ranked[g] = <<0>> /\ ranked[h] = <<1>>

\* C26: the widening pass of computeP reaches a fixed point: the widening
\* loops applied to the P returned change no cell, P[j][k] is at least
\* min(P[j][i], P[i][k]) for all pairwise distinct i, j, k, and every
\* diagonal cell P[i][i] is 0.
C26_WideningFixedPoint ==
    FnHasP =>
        /\ WidenLoopI(p, n, 0) = p
        /\ \A i, j, k \in Options :
              (i # j /\ j # k /\ i # k) => p[j][k] >= IntMin(p[j][i], p[i][k])
        /\ \A i \in Options : p[i][i] = 0

\* Three options on a cycle: the pass has widened the seed matrix, and each
\* option has a path to itself through the others while its diagonal cell
\* is 0.
C26_Witness ==
    /\ FnHasP
    /\ n = 3
    /\ p # SeedAll(NewIntMatrix(n), d, n, 0)
    /\ \A i, j \in Options : i # j => p[i][j] > 0
    /\ \A i \in Options : p[i][i] = 0

\* The position of the group of option x: one more than the number of
\* distinct win counts above that of x.
GroupPosition(P, N, x) ==
    1 + Cardinality({WinCount(P, N, y) : y \in {z \in 0 .. N - 1 : WinCount(P, N, z) > WinCount(P, N, x)}})

\* C27: but for the order of the options inside a group, Ranked is the same
\* under every interleaving of the goroutines of rankP: the number of
\* groups and the set of options at each group position are those that P
\* and n determine, and those of every order in which the goroutines can
\* append.
C27_GroupsDeterministic ==
    (SchulzeDone /\ ret # Nil) =>
        /\ Len(Deref(ret).Ranked) = Cardinality({WinCount(p, n, x) : x \in Options})
        /\ \A g \in DOMAIN Deref(ret).Ranked :
              /\ Range(Deref(ret).Ranked[g]) = {x \in Options : GroupPosition(p, n, x) = g}
              /\ Len(Deref(ret).Ranked[g]) = Cardinality(Range(Deref(ret).Ranked[g]))
        /\ \A order \in Orders(n) : SameGroups(Deref(ret).Ranked, rankP(p, n, order))

\* A run with three options in two groups whose group of two tied options
\* holds them in the other order than the run in which the goroutines
\* append in the order of their start.
C27_Witness ==
    /\ SchulzeDone
    /\ ret # Nil
    /\ n = 3
    /\ Len(Deref(ret).Ranked) = 2
    /\ Deref(ret).Ranked # rankP(p, n, InOrder(n))
    /\ SameGroups(Deref(ret).Ranked, rankP(p, n, InOrder(n)))
    /\ \E x, y \in Options : x # y /\ WinCount(p, n, x) = WinCount(p, n, y)

\* ParseVotingCollection has returned.
ParseDone == call = "parse" /\ pc = "done"

\* The kind of a line, by the beginning of the trimmed line.
KindOf(line) ==
    LET s == TrimSpace(line)
    IN  IF s = <<>> THEN "blank"
        ELSE IF HasPrefix(s, <<"#", " ">>) THEN "title"
        ELSE IF HasPrefix(s, <<"#", "#", " ">>) THEN "group"
        ELSE IF HasPrefix(s, <<"#", "#", "#", " ">>) THEN "voting"
        ELSE IF HasPrefix(s, <<"-", " ">>) THEN "median"
        ELSE IF HasPrefix(s, <<"*", " ">>) THEN "option"
        ELSE "other"

NotBlank(line) == KindOf(line) # "blank"

NonBlank(seq) == SelectSeq(seq, NotBlank)

\* The kinds of line that may follow a line of kind prev ("start": no line
\* yet), as the parse states document them.
MayFollow(prev) ==
    IF prev = "start" THEN {"title"}
    ELSE IF prev = "title" THEN {"group"}
    ELSE IF prev = "group" THEN {"voting"}
    ELSE IF prev = "voting" THEN {"median", "option"}
    ELSE IF prev = "median" THEN {"voting", "group"}
    ELSE IF prev = "option" THEN {"option", "voting", "group"}
    ELSE {}

KindBefore(nb, a) == IF a = 1 THEN "start" ELSE KindOf(nb[a - 1])

LinesInOrder(nb) == \A a \in DOMAIN nb : KindOf(nb[a]) \in MayFollow(KindBefore(nb, a))

\* The text of a line after its mark.
TextOf(line) ==
    LET s == TrimSpace(line)
    IN  IF KindOf(line) = "group" THEN TrimSpace(SliceFrom(s, 2))
        ELSE IF KindOf(line) = "voting" THEN TrimSpace(SliceFrom(s, 3))
        ELSE TrimSpace(SliceFrom(s, 1))

\* The positions of S, least first.
RECURSIVE Ascending(_)
Ascending(S) ==
    IF S = {} THEN <<>>
    ELSE LET m == CHOOSE x \in S : \A y \in S : x <= y
         IN  <<m>> \o Ascending(S \ {m})

\* The group lines of nb before position b: the last of them is the group
\* most recently opened there.
GroupsBefore(nb, b) == {a \in 1 .. b - 1 : KindOf(nb[a]) = "group"}

\* The positions of the first value or option lines of the votings of the
\* g-th group of nb, of the kind given.
VotingsOf(nb, g, kind) ==
    Ascending({b \in 2 .. Len(nb) :
        /\ KindOf(nb[b]) = kind
        /\ KindOf(nb[b - 1]) = "voting"
        /\ Cardinality(GroupsBefore(nb, b)) = g})

\* The option lines of the Schulze voting whose first option is at b.
RECURSIVE OptionsFrom(_, _)
OptionsFrom(nb, b) ==
    IF b > Len(nb) \/ KindOf(nb[b]) # "option" THEN <<>>
    ELSE <<TextOf(nb[b])>> \o OptionsFrom(nb, b + 1)

\* Every voting of the lines nb is in the collection c, in the group opened
\* last before it, and c holds nothing else.
Attached(c, nb) ==
    /\ Len(c.Groups) = Cardinality(GroupsBefore(nb, Len(nb) + 1))
    /\ \A g \in DOMAIN c.Groups :
          /\ c.Groups[g].Name = TextOf(nb[Ascending(GroupsBefore(nb, Len(nb) + 1))[g]])
          /\ LET ms == VotingsOf(nb, g, "median")
                 ss == VotingsOf(nb, g, "option")
             IN  /\ Len(c.Groups[g].MedianVotings) = Len(ms)
                 /\ \A v \in DOMAIN ms :
                       c.Groups[g].MedianVotings[v].Name = TextOf(nb[ms[v] - 1])
                 /\ Len(c.Groups[g].SchulzeVotings) = Len(ss)
                 /\ \A v \in DOMAIN ss :
                       /\ c.Groups[g].SchulzeVotings[v].Name = TextOf(nb[ss[v] - 1])
                       /\ c.Groups[g].SchulzeVotings[v].Options = OptionsFrom(nb, ss[v])

\* C28: ParseVotingCollection accepts the non-blank lines of its input only
\* in the order the parse states document: a title line first, then a group
\* header, after a group header a voting header, after a voting header one
\* median value line or a Schulze option line, after a median value line a
\* voting or group header, after a Schulze option line an option, a voting
\* header or a group header.  An input with any other next line is answered
\* with an error and a nil collection; a collection is returned exactly
\* when no error is, and every voting parsed is in the group opened last
\* before it.
C28_ParseOrder ==
    /\ (call = "parse" /\ pc = "call") => LinesInOrder(NonBlank(input))
    /\ ParseDone =>
          /\ (err = Nil) <=> (ret # Nil)
          /\ ~LinesInOrder(NonBlank(input)) => (err # Nil /\ ret = Nil)
          /\ (ret # Nil /\ LinesInOrder(NonBlank(input))) => Attached(Deref(ret), NonBlank(input))

\* The input holds a line too long for the Scanner.
HasTooLongLine == \E a \in DOMAIN input : ScanFails(input[a])

\* What holds of C28 for the inputs whose lines all fit the Scanner's
\* buffer: the statement of C28 holds of each of them.
ParseOrderWithinBuffer == HasTooLongLine \/ C28_ParseOrder

\* A title line and a group header, then a line that is of no kind and too
\* long for the Scanner: the collection with the one group is returned, and
\* no error.
C28_Witness ==
    /\ ParseDone
    /\ input = <<TitleLine, GroupLine, TooLongLine>>
    /\ ~LinesInOrder(NonBlank(input))
    /\ err = Nil
    /\ ret # Nil
    /\ Len(Deref(ret).Groups) = 1

====
